---------------------------- MODULE Spec2Model ----------------------------
(***************************************************************************)
(* Model of the Acappell-IA transcription pipeline: RateLimiter,           *)
(* APITranscriber, SegmentMerger, ChunkBuilder, TextSplitter and           *)
(* run_transcription_pipeline / main.                                      *)
(*                                                                         *)
(* Times are integers counting tenths of a second (1.2 s = 12), so that    *)
(* every threshold of the source is an exact integer.  Strings are         *)
(* sequences of one-character strings, so that lower(), strip(), split()   *)
(* and substring tests are computed and not assumed.                       *)
(***************************************************************************)
EXTENDS Integers, Sequences, FiniteSets, TLC

(***************************************************************************)
(* Strings                                                                 *)
(***************************************************************************)

\* str.lower() on one character (the letters the error texts use).
LowerChar(c) ==
    CASE c = "P" -> "p" [] c = "E" -> "e" [] c = "R" -> "r"
      [] c = "D" -> "d" [] c = "A" -> "a" [] c = "Y" -> "y"
      [] c = "T" -> "t" [] c = "L" -> "l" [] c = "I" -> "i"
      [] c = "M" -> "m"
      [] OTHER -> c

\* str.lower()
Lower(s) == [i \in 1..Len(s) |-> LowerChar(s[i])]

\* `sub in s` for strings
Contains(s, sub) ==
    \E i \in 1..(Len(s) - Len(sub) + 1) :
        SubSeq(s, i, i + Len(sub) - 1) = sub

PER_DAY == <<"p", "e", "r", " ", "d", "a", "y">>
RATE_LIMIT == <<"r", "a", "t", "e", " ", "l", "i", "m", "i", "t">>

(***************************************************************************)
(* SpeakerSegment, SegmentMerger, ChunkBuilder                             *)
(***************************************************************************)

Speakers == {"spk1", "spk2"}

\* SpeakerSegment(speaker, start, end)
SpeakerSegment(spk, s, e) == [speaker |-> spk, start |-> s, end |-> e]

\* SpeakerSegment.duration
Duration(seg) == seg.end - seg.start

\* SegmentMerger() defaults, in tenths of a second
max_gap == 12
max_duration == 300
min_duration == 5

\* sorted(segments, key=lambda x: x.start): stable, so an element goes after
\* every element already placed whose start is <= its own.
InsertByStart(sorted, x) ==
    LET k == Cardinality({i \in 1..Len(sorted) : sorted[i].start <= x.start})
    IN  SubSeq(sorted, 1, k) \o <<x>> \o SubSeq(sorted, k + 1, Len(sorted))

RECURSIVE SortFrom(_, _, _)
SortFrom(segments, i, acc) ==
    IF i > Len(segments) THEN acc
    ELSE SortFrom(segments, i + 1, InsertByStart(acc, segments[i]))

SortByStart(segments) == SortFrom(segments, 1, <<>>)

\* a slip: the gap is measured from the accumulator's start
CanMergeGapFromStart(current, next_seg) ==
    /\ next_seg.speaker = current.speaker
    /\ next_seg.start - current.start <= max_gap
    /\ next_seg.end - current.start <= max_duration

\* can_merge of SegmentMerger.merge
CanMerge(current, next_seg) ==
    /\ next_seg.speaker = current.speaker
    /\ next_seg.start - current.end <= max_gap
    /\ next_seg.end - current.start <= max_duration

\* a slip: the flush compares with max_gap instead of min_duration
FlushWrongThreshold(merged, current) ==
    IF Duration(current) >= max_gap THEN Append(merged, current) ELSE merged

\* a slip: the flush keeps every accumulator, however short
FlushKeepsAll(merged, current) == Append(merged, current)

\* `if current.duration >= self.min_duration: merged.append(current)`
Flush(merged, current) ==
    IF Duration(current) >= min_duration THEN Append(merged, current) ELSE merged

\* the for loop of SegmentMerger.merge and the final flush
RECURSIVE MergeLoop(_, _, _, _)
MergeLoop(sorted_segments, i, current, merged) ==
    IF i > Len(sorted_segments) THEN Flush(merged, current)
    ELSE LET next_seg == sorted_segments[i]
         IN  IF CanMerge(current, next_seg)
             THEN MergeLoop(sorted_segments, i + 1,
                            SpeakerSegment(current.speaker, current.start, next_seg.end),
                            merged)
             ELSE MergeLoop(sorted_segments, i + 1, next_seg, Flush(merged, current))

\* SegmentMerger.merge
Merge(segments) ==
    IF segments = <<>> THEN <<>>
    ELSE LET sorted_segments == SortByStart(segments)
         IN  MergeLoop(sorted_segments, 2, sorted_segments[1], <<>>)

\* MultiSpeakerChunk(start, end, subsegments)
MultiSpeakerChunk(s, e, subs) == [start |-> s, end |-> e, subsegments |-> subs]

\* a slip: the limit is applied to the interval alone, not to the chunk it would end
ChunkFitsSegOnly(current_chunk, seg, max_chunk_duration) ==
    seg.end - seg.start <= max_chunk_duration

\* `duration = new_end - current_chunk.start; if duration <= self.max_chunk_duration`
ChunkFits(current_chunk, seg, max_chunk_duration) ==
    seg.end - current_chunk.start <= max_chunk_duration

\* a slip: the chunk's list is replaced by the new interval
AppendSubsegmentReplaces(subsegments, seg) == <<seg>>

\* current_chunk.subsegments.append(seg)
AppendSubsegment(subsegments, seg) == Append(subsegments, seg)

\* the for loop of ChunkBuilder.build and the final append
RECURSIVE BuildLoop(_, _, _, _, _)
BuildLoop(segments, i, current_chunk, chunks, max_chunk_duration) ==
    IF i > Len(segments) THEN Append(chunks, current_chunk)
    ELSE LET seg == segments[i]
             new_end == seg.end
         IN  IF ChunkFits(current_chunk, seg, max_chunk_duration)
             THEN BuildLoop(segments, i + 1,
                            MultiSpeakerChunk(current_chunk.start, new_end,
                                              AppendSubsegment(current_chunk.subsegments, seg)),
                            chunks, max_chunk_duration)
             ELSE BuildLoop(segments, i + 1,
                            MultiSpeakerChunk(seg.start, seg.end, <<seg>>),
                            Append(chunks, current_chunk), max_chunk_duration)

\* ChunkBuilder(max_chunk_duration).build
Build(segments, max_chunk_duration) ==
    IF segments = <<>> THEN <<>>
    ELSE BuildLoop(segments, 2,
                   MultiSpeakerChunk(segments[1].start, segments[1].end, <<segments[1]>>),
                   <<>>, max_chunk_duration)


(***************************************************************************)
(* RTTMParser, TextSplitter, extract_audio_segment                         *)
(***************************************************************************)

\* One line of a timing file: the number of whitespace-separated fields,
\* whether float() accepts fields 3 and 4, their values, and field 7.
RttmLine(n, sOk, s, dOk, d, spk) ==
    [nfields |-> n, startOk |-> sOk, start |-> s,
     durationOk |-> dOk, duration |-> d, speaker |-> spk]

\* a slip: a line of exactly 8 fields is skipped
IsRecordLineOver8(line) == line.nfields > 8

\* a line RTTMParser.parse reads (8 fields or more)
IsRecordLine(line) == line.nfields >= 8

\* the point of the file at which open() or the read raises (the file is
\* missing or cannot be decoded): written as a line of -1 fields
ReadFails(line) == line.nfields < 0

\* float(parts[3]) or float(parts[4]) raises on some line of 8 fields or
\* more, or the file cannot be read
ParseRaises(lines) ==
    \E i \in 1..Len(lines) :
        \/ ReadFails(lines[i])
        \/ IsRecordLine(lines[i]) /\ ~(lines[i].startOk /\ lines[i].durationOk)

RECURSIVE ParseFrom(_, _, _)
ParseFrom(lines, i, segments) ==
    IF i > Len(lines) THEN segments
    ELSE IF IsRecordLine(lines[i])
         THEN ParseFrom(lines, i + 1,
                        Append(segments,
                               SpeakerSegment(lines[i].speaker, lines[i].start,
                                              lines[i].start + lines[i].duration)))
         ELSE ParseFrom(lines, i + 1, segments)

\* RTTMParser.parse when no line raises
Parse(lines) == ParseFrom(lines, 1, <<>>)

\* str.strip() of a text whose only whitespace is the space
RECURSIVE LStrip(_)
LStrip(s) == IF s # <<>> /\ Head(s) = " " THEN LStrip(Tail(s)) ELSE s

RECURSIVE RStrip(_)
RStrip(s) ==
    IF s # <<>> /\ s[Len(s)] = " " THEN RStrip(SubSeq(s, 1, Len(s) - 1)) ELSE s

Strip(s) == RStrip(LStrip(s))

\* text.split(): the maximal runs of non-space characters
RECURSIVE SplitFrom(_, _, _, _)
SplitFrom(s, i, word, words) ==
    IF i > Len(s)
    THEN IF word = <<>> THEN words ELSE Append(words, word)
    ELSE IF s[i] = " "
         THEN SplitFrom(s, i + 1, <<>>, IF word = <<>> THEN words ELSE Append(words, word))
         ELSE SplitFrom(s, i + 1, Append(word, s[i]), words)

Split(s) == SplitFrom(s, 1, <<>>, <<>>)

\* " ".join(words)
RECURSIVE Join(_)
Join(words) ==
    IF words = <<>> THEN <<>>
    ELSE IF Len(words) = 1 THEN words[1]
    ELSE words[1] \o <<" ">> \o Join(Tail(words))

\* sum(seg.duration for seg in segments)
RECURSIVE TotalDuration(_)
TotalDuration(segments) ==
    IF segments = <<>> THEN 0
    ELSE Duration(Head(segments)) + TotalDuration(Tail(segments))

Max(a, b) == IF a >= b THEN a ELSE b
Min(a, b) == IF a <= b THEN a ELSE b

\* a slip: the slice takes one word more than it was given
SliceOneMore(words, a, b) == SubSeq(words, Min(a, Len(words)) + 1, Min(b + 1, Len(words)))

\* words[a:b] of Python, for 0 <= a <= b
Slice(words, a, b) == SubSeq(words, Min(a, Len(words)) + 1, Min(b, Len(words)))

\* The product ratio * total_words is a binary64 product of a binary64
\* quotient.  Durations here are multiples of half a second, which binary64
\* holds exactly, so the product depends on (duration, total, words) alone:
\* these are the triples, among those met below, at which it comes out just
\* under the exact integer quotient (7.5 / 11.0 * 22 = 14.999999999999998).
DoubleRoundsBelow == {<<75, 110, 22>>}

\* the count taken from the exact quotient, without the binary64 rounding
WordCountExact(seg, total_duration, total_words) ==
    LET n == Duration(seg) * total_words
        q == IF n >= 0 THEN n \div total_duration ELSE -((-n) \div total_duration)
    IN  Max(1, q)

\* word_count = max(1, int(ratio * total_words)), ratio = seg.duration / total_duration
WordCount(seg, total_duration, total_words) ==
    LET n == Duration(seg) * total_words
        \* int() truncates toward zero
        q == IF n >= 0 THEN n \div total_duration ELSE -((-n) \div total_duration)
        product == IF <<Duration(seg), total_duration, total_words>> \in DoubleRoundsBelow
                   THEN q - 1 ELSE q
    IN  Max(1, product)

\* a slip: a record is made for every subsegment
HasWordsAlways(segment_words) == TRUE

\* `if segment_words:`
HasWords(segment_words) == segment_words # <<>>

\* the for loop of TextSplitter.split_by_speakers
RECURSIVE SplitLoop(_, _, _, _, _, _)
SplitLoop(segments, i, words, total_duration, cursor, results) ==
    IF i > Len(segments)
    THEN [results |-> results, cursor |-> cursor]
    ELSE LET seg == segments[i]
             word_count == WordCount(seg, total_duration, Len(words))
             segment_words == Slice(words, cursor, cursor + word_count)
         IN  SplitLoop(segments, i + 1, words, total_duration, cursor + word_count,
                       IF HasWords(segment_words)
                       THEN Append(results, [speaker |-> seg.speaker,
                                             text |-> Join(segment_words)])
                       ELSE results)

\* a slip: only a total of exactly zero is refused
NoDurationOnlyZero(total_duration) == total_duration = 0

\* `if total_duration <= 0: return []`
NoDuration(total_duration) == total_duration <= 0

\* TextSplitter.split_by_speakers
SplitBySpeakers(text, segments) ==
    IF Strip(text) = <<>> \/ segments = <<>> THEN <<>>
    ELSE IF NoDuration(TotalDuration(segments)) THEN <<>>
    ELSE LET words == Split(text)
             r == SplitLoop(segments, 1, words, TotalDuration(segments), 0, <<>>)
             n == Len(r.results)
         IN  IF r.cursor < Len(words) /\ r.results # <<>>
             THEN [r.results EXCEPT ![n].text =
                       @ \o <<" ">> \o Join(Slice(words, r.cursor, Len(words)))]
             ELSE r.results

\* the character U+2026 (horizontal ellipsis)
ELLIPSIS == "U+2026"

\* a slip: the text is matched without being trimmed
EndsSentenceUntrimmed(text) ==
    text # <<>> /\ text[Len(text)] \in {".", "!", "?", ELLIPSIS}

\* re.search(r"[.!?U+2026]$", current["text"].strip())
EndsSentence(text) ==
    LET t == Strip(text)
    IN  t # <<>> /\ t[Len(t)] \in {".", "!", "?", ELLIPSIS}

\* the for loop of TextSplitter.merge_consecutive_speakers and the final append
RECURSIVE MergeRecordsLoop(_, _, _, _)
MergeRecordsLoop(segments, i, current, merged) ==
    IF i > Len(segments) THEN Append(merged, current)
    ELSE LET next_seg == segments[i]
         IN  IF next_seg.speaker = current.speaker /\ ~EndsSentence(current.text)
             THEN MergeRecordsLoop(segments, i + 1,
                                   [current EXCEPT !.text = @ \o <<" ">> \o next_seg.text],
                                   merged)
             ELSE MergeRecordsLoop(segments, i + 1, next_seg, Append(merged, current))

\* TextSplitter.merge_consecutive_speakers
MergeConsecutiveSpeakers(segments) ==
    IF segments = <<>> THEN <<>>
    ELSE MergeRecordsLoop(segments, 2, segments[1], <<>>)

\* a slip: the accumulator is element i of the input itself
AccumulatorIsInput(i) == i

\* `segments[0].copy()`, `next_seg.copy()`: the accumulator is a dict of its
\* own and not element i of the input list (0: no element)
AccumulatorIsCopy(i) == 0

\* the input list as the loop leaves it: `current["text"] += ...` writes to
\* the dict the accumulator is, element `alias` of the input if it is one
RECURSIVE InputAfterLoop(_, _, _, _, _)
InputAfterLoop(segments, i, current, alias, input) ==
    IF i > Len(segments) THEN input
    ELSE LET next_seg == input[i]
         IN  IF next_seg.speaker = current.speaker /\ ~EndsSentence(current.text)
             THEN LET text == current.text \o <<" ">> \o next_seg.text
                  IN  InputAfterLoop(segments, i + 1, [current EXCEPT !.text = text],
                                     alias,
                                     IF alias = 0 THEN input
                                     ELSE [input EXCEPT ![alias].text = text])
             ELSE InputAfterLoop(segments, i + 1, next_seg, AccumulatorIsCopy(i), input)

\* the caller's list after merge_consecutive_speakers(segments) has returned
InputAfterMerge(segments) ==
    IF segments = <<>> THEN <<>>
    ELSE InputAfterLoop(segments, 2, segments[1], AccumulatorIsCopy(1), segments)

\* the value of the local main_speaker before get_main_speaker has returned
NoSpeaker == "unassigned"

\* the keys of speaker_durations in the order the loop inserts them: each
\* speaker at its first subsegment
RECURSIVE SpeakerKeys(_, _, _)
SpeakerKeys(subsegments, i, keys) ==
    IF i > Len(subsegments) THEN keys
    ELSE SpeakerKeys(subsegments, i + 1,
                     IF \E k \in 1..Len(keys) : keys[k] = subsegments[i].speaker
                     THEN keys
                     ELSE Append(keys, subsegments[i].speaker))

\* speaker_durations[speaker] once the loop is over
RECURSIVE SpeakerDuration(_, _)
SpeakerDuration(subsegments, speaker) ==
    IF subsegments = <<>> THEN 0
    ELSE (IF Head(subsegments).speaker = speaker THEN Duration(Head(subsegments)) ELSE 0)
         + SpeakerDuration(Tail(subsegments), speaker)

\* a slip: a later key of equal value replaces the best one
RECURSIVE MaxKeyLast(_, _, _, _)
MaxKeyLast(keys, i, best, subsegments) ==
    IF i > Len(keys) THEN best
    ELSE MaxKeyLast(keys, i + 1,
                    IF SpeakerDuration(subsegments, keys[i])
                           >= SpeakerDuration(subsegments, best)
                    THEN keys[i] ELSE best,
                    subsegments)

\* max(speaker_durations, key=speaker_durations.get): the keys are visited in
\* insertion order and a key replaces the best one only when its value is
\* strictly greater
RECURSIVE MaxKey(_, _, _, _)
MaxKey(keys, i, best, subsegments) ==
    IF i > Len(keys) THEN best
    ELSE MaxKey(keys, i + 1,
                IF SpeakerDuration(subsegments, keys[i])
                       > SpeakerDuration(subsegments, best)
                THEN keys[i] ELSE best,
                subsegments)

\* get_main_speaker(chunk), for a chunk with at least one subsegment
GetMainSpeaker(subsegments) ==
    LET keys == SpeakerKeys(subsegments, 1, <<>>)
    IN  MaxKey(keys, 2, keys[1], subsegments)

\* len(extract_audio_segment(audio, start, end)), in tenths of a second, for
\* a recording of audio_len tenths: audio[start_ms:end_ms] is cut to the recording
SliceLen(audio_len, start, end) ==
    Max(0, Min(end, audio_len) - Min(start, audio_len))

\* `if len(audio_chunk) < 1000` (milliseconds)
MIN_SLICE == 10

(***************************************************************************)
(* State                                                                   *)
(***************************************************************************)

VARIABLES
    \* SegmentMerger / ChunkBuilder applied to an interval list
    segs,           \* the interval list handed to merge / build
    sphase,         \* "input", "merged", "remerged", "built"
    merged,         \* SegmentMerger().merge(segs)
    remerged,       \* SegmentMerger().merge(merged)
    chunkLimit,     \* max_chunk_duration of the ChunkBuilder
    chunkInput,     \* the list handed to ChunkBuilder.build
    chunks,         \* ChunkBuilder(chunkLimit).build(chunkInput)
    \* one RateLimiter shared by threads calling wait()
    clock,          \* time.time(), tenths of a second
    lock,           \* RateLimiter.lock: the thread holding it, or NoThread
    last_call,      \* RateLimiter.last_call
    prev_call,      \* the value last_call had before the latest return of wait()
    nreturns,       \* number of returns from wait(), counted up to 2
    lpc,            \* per thread: "idle", "locked", "sleeping", "stamp"
    wake,           \* per thread: the instant its time.sleep() is over
    \* one call of APITranscriber.transcribe
    ntranscribes,   \* calls of transcribe() made so far
    tpc,            \* "idle", "wait", "call", "done"
    attempt,        \* the loop variable of `for attempt in range(max_retries)`
    nwaits,         \* calls of rate_limiter.wait() made by this call
    ncalls,         \* calls of client.audio.transcriptions.create made by this call
    sleeps,         \* the backoff time.sleep() durations of this call, in seconds
    errs,           \* the texts of the errors the engine raised, one per failed attempt
    toutcome,       \* "none", "returned", "DailyQuotaExceededError", "AudioProcessingError"
    tret,           \* the text returned, when toutcome = "returned"
    tcause,         \* the error text the raised exception wraps
    \* one session of main() and its run of run_transcription_pipeline
    ppc,            \* "off", "idle", "diarize", "parse", "segments", "chunk",
                    \* "transcribing", "save", "ended"
    pexit,          \* how the run left: "none", "completed", "DiarizationError",
                    \* "stopped" (st.stop() after the quota error), "AudioProcessingError"
    audio_len,      \* length of the recording, tenths of a second
    rttm,           \* the lines of the timing file the diarization wrote
    tempfiles,      \* temporary files and directories of the run that exist
    ncleanups,      \* executions of AudioTempCleaner.cleanup
    nruns,          \* runs of run_transcription_pipeline started
    ci,             \* the loop variable i of the chunk loop
    transcribed,    \* the chunks handed to the transcription service, in order
    final_segments, \* the local list final_segments
    preturned,      \* run_transcription_pipeline returned a value
    pret,           \* the value it returned
    session,        \* st.session_state
    local_mode,     \* config.local_mode: WhisperTranscriber instead of APITranscriber
    allocated,      \* the texts the loop has received so far, with their chunk
    main_speaker,   \* the local main_speaker of the chunk loop
    \* the parser and the TextSplitter applied to drawn inputs
    xphase,         \* "off", "split_in", "split", "records_in", "records"
    textIn,         \* the text handed to split_by_speakers
    records,        \* what split_by_speakers returned
    recIn,          \* the record list handed to merge_consecutive_speakers
    recOut,         \* what merge_consecutive_speakers returned
    recAfter,       \* the list handed to merge_consecutive_speakers, after the call
    \* one WhisperTranscriber
    model_name,     \* the model_name argument of the current transcribe call
    model_cache,    \* self._model_cache: model name -> the weights loaded for it
    loads           \* the names whisper.load_model has loaded, in order

segVars == <<segs, sphase, merged, remerged, chunkLimit, chunkInput, chunks>>
limVars == <<clock, lock, last_call, prev_call, nreturns, lpc, wake>>
trVars == <<ntranscribes, tpc, attempt, nwaits, ncalls, sleeps, errs, toutcome, tret, tcause>>

pipeVars == <<ppc, pexit, audio_len, rttm, tempfiles, ncleanups, nruns, ci, transcribed,
              final_segments, preturned, pret, session, local_mode, allocated,
              main_speaker>>
stageVars == <<xphase, textIn, records, recIn, recOut, recAfter>>
whVars == <<model_name, model_cache, loads>>

vars == <<segVars, limVars, trVars, pipeVars, stageVars, whVars>>

\* what the steps of one component leave alone
notLim == <<segVars, trVars, pipeVars, stageVars, whVars>>
notSeg == <<limVars, trVars, pipeVars, stageVars, whVars>>
notTr == <<segVars, pipeVars, stageVars, whVars>>

\* chunk_duration of main(): 30 s for a Whisper model, 60 s by default
WHISPER_CHUNK == 300
DEFAULT_CHUNK == 600

\* the parts of the state a specification does not exercise stay as constructed
SegOff ==
    /\ segs = <<>>
    /\ sphase = "off"
    /\ merged = <<>>
    /\ remerged = <<>>
    /\ chunkLimit = DEFAULT_CHUNK
    /\ chunkInput = <<>>
    /\ chunks = <<>>

\* init_session_state
SessionDefaults ==
    [processing |-> FALSE, transcription_done |-> FALSE,
     final_segments |-> <<>>, docx_transcription |-> FALSE]

PipeOff ==
    /\ ppc = "off"
    /\ pexit = "none"
    /\ audio_len = 0
    /\ rttm = <<>>
    /\ tempfiles = {}
    /\ ncleanups = 0
    /\ nruns = 0
    /\ ci = 0
    /\ transcribed = <<>>
    /\ final_segments = <<>>
    /\ preturned = FALSE
    /\ pret = <<>>
    /\ session = SessionDefaults
    /\ local_mode = FALSE
    /\ allocated = <<>>
    /\ main_speaker = NoSpeaker

StageOff ==
    /\ xphase = "off"
    /\ textIn = <<>>
    /\ records = <<>>
    /\ recIn = <<>>
    /\ recOut = <<>>
    /\ recAfter = <<>>

\* the value of model_name outside a call
NoModel == "unassigned"

\* WhisperTranscriber.__init__: self._model_cache = {}
WhOff ==
    /\ model_name = NoModel
    /\ model_cache = <<>>
    /\ loads = <<>>

\* threads sharing the limiter, and the instant the model's clock stops at
NumThreads == 2
MaxClock == 40

Threads == 1..NumThreads
NoThread == 0

\* RateLimiter(calls_per_minute=50): interval = 60.0 / calls_per_minute
calls_per_minute == 50
interval == 600 \div calls_per_minute

\* RateLimiter.__init__; time.time() is far beyond one interval after 0.0
LimOff ==
    /\ clock = interval
    /\ lock = NoThread
    /\ last_call = 0
    /\ prev_call = 0
    /\ nreturns = 0
    /\ lpc = [t \in Threads |-> "idle"]
    /\ wake = [t \in Threads |-> 0]

\* APITranscriber.__init__ / before a call
TrOff ==
    /\ ntranscribes = 0
    /\ tpc = "idle"
    /\ attempt = 0
    /\ nwaits = 0
    /\ ncalls = 0
    /\ sleeps = <<>>
    /\ errs = <<>>
    /\ toutcome = "none"
    /\ tret = <<>>
    /\ tcause = <<>>

(***************************************************************************)
(* RateLimiter                                                             *)
(***************************************************************************)

\* a slip: the body of wait() runs without taking the lock
LockIgnored(t) == TRUE

\* `with self.lock:` lets one thread in at a time
LockAvailable(t) == lock = NoThread

\* wait(): `with self.lock:` entered
LAcquire(t) ==
    /\ lpc[t] = "idle"
    /\ LockAvailable(t)
    /\ lock' = t
    /\ lpc' = [lpc EXCEPT ![t] = "locked"]
    /\ UNCHANGED <<clock, last_call, prev_call, nreturns, wake>>
    /\ UNCHANGED notLim

\* wait(): now = time.time(); elapsed = now - self.last_call;
\* sleep_time = self.interval - elapsed; if sleep_time > 0: time.sleep(sleep_time)
LReadNow(t) ==
    /\ lpc[t] = "locked"
    /\ LET now == clock
           elapsed == now - last_call
           sleep_time == interval - elapsed
       IN  IF sleep_time > 0
           THEN /\ lpc' = [lpc EXCEPT ![t] = "sleeping"]
                /\ wake' = [wake EXCEPT ![t] = now + sleep_time]
           ELSE /\ lpc' = [lpc EXCEPT ![t] = "stamp"]
                /\ wake' = wake
    /\ UNCHANGED <<clock, lock, last_call, prev_call, nreturns>>
    /\ UNCHANGED notLim

\* time.sleep(sleep_time) returns once at least sleep_time has passed
LWake(t) ==
    /\ lpc[t] = "sleeping"
    /\ clock >= wake[t]
    /\ lpc' = [lpc EXCEPT ![t] = "stamp"]
    /\ wake' = [wake EXCEPT ![t] = 0]
    /\ UNCHANGED <<clock, lock, last_call, prev_call, nreturns>>
    /\ UNCHANGED notLim

\* wait(): self.last_call = time.time(); the lock is released and wait() returns
LStamp(t) ==
    /\ lpc[t] = "stamp"
    /\ last_call' = clock
    /\ prev_call' = last_call
    /\ nreturns' = IF nreturns < 2 THEN nreturns + 1 ELSE nreturns
    /\ lock' = NoThread
    /\ lpc' = [lpc EXCEPT ![t] = "idle"]
    /\ UNCHANGED <<clock, wake>>
    /\ UNCHANGED notLim

\* time passes
Tick ==
    /\ clock < MaxClock
    /\ clock' = clock + 1
    /\ UNCHANGED <<lock, last_call, prev_call, nreturns, lpc, wake>>
    /\ UNCHANGED notLim

LimNext ==
    \/ \E t \in Threads : LAcquire(t) \/ LReadNow(t) \/ LWake(t) \/ LStamp(t)
    \/ Tick

LimInit == LimOff /\ SegOff /\ TrOff /\ PipeOff /\ StageOff /\ WhOff

SpecLimiter == LimInit /\ [][LimNext]_vars

\* a thread is between the read of last_call and its write of last_call
InWait(t) == lpc[t] \in {"locked", "sleeping", "stamp"}

\* C4: for any number of threads calling wait() on one shared RateLimiter,
\* in every interleaving, two successive returns from wait() are at least
\* `interval` apart (a return is timed by the last_call it records), and the
\* read of last_call, the sleep and the write of last_call of one caller are
\* never interleaved with those of another.
C4_WaitSpacing ==
    /\ nreturns >= 2 => last_call - prev_call >= interval
    /\ \A t, u \in Threads : (InWait(t) /\ InWait(u)) => t = u
    /\ \A t \in Threads : InWait(t) => lock = t

\* C4 witness: a second thread has returned from wait() exactly one
\* interval after the first, while another thread is waiting for the lock
C4_Witness ==
    /\ nreturns >= 2
    /\ last_call - prev_call = interval
    /\ \E t \in Threads : InWait(t)

(***************************************************************************)
(* APITranscriber.transcribe                                               *)
(***************************************************************************)

\* APITranscriber(max_retries=5)
max_retries == 5

\* calls of transcribe() made on one transcriber outside a pipeline run
MaxTranscribes == 2

\* error texts the engine may raise
ErrPerDayMixed == <<"P", "e", "r", " ", "D", "A", "Y">>
ErrRateAndPerDay ==
    <<"R", "a", "t", "e", " ", "l", "i", "m", "i", "t", " ", "p", "e", "r", " ", "d", "a", "y">>
ErrRateLimit == <<"R", "A", "T", "E", " ", "L", "i", "m", "i", "t">>
ErrOther == <<"t", "i", "m", "e", "d", " ", "o", "u", "t">>
ErrServer == <<"5", "0", "0">>
ErrorTexts == {ErrPerDayMixed, ErrRateAndPerDay, ErrRateLimit, ErrOther, ErrServer}

\* response.text of the engine
ResponseTexts ==
    {<<>>, <<" ">>, <<"a", " ", "b", ".">>, <<" ", "a", " ", "b", " ", "c", " ">>}

\* a slip: the error text is matched without being lowercased
IsDailyQuotaCaseSensitive(e) == Contains(e, PER_DAY)

\* error_msg = str(e).lower(); "per day" in error_msg
IsDailyQuota(e) == Contains(Lower(e), PER_DAY)

\* error_msg = str(e).lower(); "rate limit" in error_msg
IsRateLimit(e) == Contains(Lower(e), RATE_LIMIT)

\* a slip: the last attempt is taken to be number max_retries
IsLastAttemptOffByOne(a) == a = max_retries

\* `if attempt == self.max_retries - 1`
IsLastAttempt(a) == a = max_retries - 1

\* transcribe() entered: buf = to_wav_buffer(audio_chunk), first loop iteration
TBegin ==
    /\ ntranscribes' = ntranscribes + 1
    /\ tpc' = IF max_retries > 0 THEN "wait" ELSE "done"
    /\ attempt' = 0
    /\ nwaits' = 0
    /\ ncalls' = 0
    /\ sleeps' = <<>>
    /\ errs' = <<>>
    /\ toutcome' = IF max_retries > 0 THEN "none" ELSE "returned"
    /\ tret' = <<>>
    /\ tcause' = <<>>

\* self.rate_limiter.wait() has returned (the wait itself is LAcquire ..
\* LStamp above; it does not change what transcribe does next)
TWait ==
    /\ tpc = "wait"
    /\ nwaits' = nwaits + 1
    /\ tpc' = "call"
    /\ UNCHANGED limVars
    /\ UNCHANGED <<ntranscribes, attempt, ncalls, sleeps, errs, toutcome, tret, tcause>>
    /\ UNCHANGED notTr

\* client.audio.transcriptions.create returns; return response.text.strip()
TCallOk(text) ==
    /\ tpc = "call"
    /\ ncalls' = ncalls + 1
    /\ tret' = Strip(text)
    /\ toutcome' = "returned"
    /\ tpc' = "done"
    /\ UNCHANGED <<ntranscribes, attempt, nwaits, sleeps, errs, tcause>>
    /\ UNCHANGED limVars
    /\ UNCHANGED notTr

\* a slip: the backoff is computed from the zero-based loop variable
BackoffZeroBased(n) == 2 * n

\* wait_time = 2 * (attempt + 1)
Backoff(n) == 2 * (n + 1)

\* a slip: the loop runs for one value more
InRangeOneMore(n) == n <= max_retries

\* n is in range(self.max_retries)
InRange(n) == n < max_retries

\* the next iteration of `for attempt in range(self.max_retries)`, or the
\* `return ""` after the loop
TNextAttempt ==
    /\ attempt' = attempt + 1
    /\ IF InRange(attempt + 1)
       THEN /\ tpc' = "wait"
            /\ UNCHANGED <<toutcome, tret>>
       ELSE /\ tpc' = "done"
            /\ toutcome' = "returned"
            /\ tret' = <<>>

\* client.audio.transcriptions.create raises e: the except clause
TCallErr(e) ==
    /\ tpc = "call"
    /\ ncalls' = ncalls + 1
    /\ errs' = Append(errs, e)
    /\ IF IsDailyQuota(e)
       THEN \* raise DailyQuotaExceededError(str(e)) from e
            /\ toutcome' = "DailyQuotaExceededError"
            /\ tcause' = e
            /\ tpc' = "done"
            /\ UNCHANGED <<attempt, sleeps, tret>>
       ELSE IF IsRateLimit(e)
       THEN \* wait_time = 2 * (attempt + 1); time.sleep(wait_time); continue
            /\ sleeps' = Append(sleeps, Backoff(attempt))
            /\ TNextAttempt
            /\ UNCHANGED tcause
       ELSE IF IsLastAttempt(attempt)
       THEN \* raise AudioProcessingError(...) from e
            /\ toutcome' = "AudioProcessingError"
            /\ tcause' = e
            /\ tpc' = "done"
            /\ UNCHANGED <<attempt, sleeps, tret>>
       ELSE /\ TNextAttempt
            /\ UNCHANGED <<sleeps, tcause>>
    /\ UNCHANGED <<ntranscribes, nwaits>>
    /\ UNCHANGED limVars
    /\ UNCHANGED notTr

\* a caller invokes transcribe() on an idle transcriber
TCall ==
    /\ tpc \in {"idle", "done"}
    /\ ntranscribes < MaxTranscribes
    /\ TBegin
    /\ UNCHANGED limVars
    /\ UNCHANGED notTr

TrNext ==
    \/ TCall
    \/ TWait
    \/ \E text \in ResponseTexts : TCallOk(text)
    \/ \E e \in ErrorTexts : TCallErr(e)

TrInit == TrOff /\ LimOff /\ SegOff /\ PipeOff /\ StageOff /\ WhOff

SpecTranscribe == TrInit /\ [][TrNext]_vars

\* a call of rate_limiter.wait() returns, and a request to the engine is
\* answered or fails, in the end
TrFairness ==
    /\ WF_vars(TWait)
    /\ WF_vars(\E text \in ResponseTexts : TCallOk(text))

SpecTranscribeLive == SpecTranscribe /\ TrFairness

\* a text holds the given words in any letter case: one set of admissible
\* characters per position
MentionsAnyCase(e, letters) ==
    \E i \in 0..(Len(e) - Len(letters)) :
        \A k \in 1..Len(letters) : e[i + k] \in letters[k]

MentionsPerDay(e) ==
    MentionsAnyCase(e, <<{"p", "P"}, {"e", "E"}, {"r", "R"}, {" "},
                         {"d", "D"}, {"a", "A"}, {"y", "Y"}>>)

MentionsRateLimit(e) ==
    MentionsAnyCase(e, <<{"r", "R"}, {"a", "A"}, {"t", "T"}, {"e", "E"}, {" "},
                         {"l", "L"}, {"i", "I"}, {"m", "M"}, {"i", "I"}, {"t", "T"}>>)

\* every attempt so far failed, none succeeded
OnlyFailures == errs # <<>> /\ ncalls = Len(errs)

\* C1: when transcribe exhausts its attempt budget on rate-limit failures
\* (every attempt, the final one included, fails with a text that mentions
\* "rate limit"), it raises AudioProcessingError and returns no text.
C1_RateLimitExhaustionEscalates ==
    (/\ tpc = "done"
     /\ Len(errs) = max_retries
     /\ OnlyFailures
     /\ \A k \in 1..Len(errs) :
           MentionsRateLimit(errs[k]) /\ ~MentionsPerDay(errs[k]))
        => toutcome = "AudioProcessingError"

\* C2: an engine error whose text mentions "per day" in any letter case, on
\* whichever attempt and even if it also mentions "rate limit", raises
\* DailyQuotaExceededError at once: it is the last engine call of the call,
\* no backoff sleep and no rate-limiter wait follow it, and
\* AudioProcessingError is never raised for it.
C2_PerDayIsFatalAtOnce ==
    /\ \A k \in 1..Len(errs) :
          MentionsPerDay(errs[k]) =>
              /\ k = Len(errs)
              /\ tpc = "done"
              /\ toutcome = "DailyQuotaExceededError"
              /\ tcause = errs[k]
              /\ ncalls = k
              /\ nwaits = k
              /\ Len(sleeps) = Cardinality({j \in 1..(k - 1) : MentionsRateLimit(errs[j])})
    /\ toutcome = "AudioProcessingError" => ~MentionsPerDay(tcause)

\* C2 witness: after a rate-limit failure and another failure, the third
\* attempt failed with a text mentioning both "rate limit" and "per day"
C2_Witness ==
    /\ Len(errs) = 3
    /\ errs[1] = ErrRateLimit
    /\ errs[3] = ErrRateAndPerDay
    /\ toutcome = "DailyQuotaExceededError"

\* C3: if every attempt fails with a text mentioning neither "per day" nor
\* "rate limit", the engine is called exactly max_retries times and then
\* AudioProcessingError wrapping the last error is raised; nothing is
\* raised for such a failure before the final attempt.
C3_OtherFailuresUseWholeBudget ==
    (/\ OnlyFailures
     /\ \A k \in 1..Len(errs) :
           ~MentionsPerDay(errs[k]) /\ ~MentionsRateLimit(errs[k]))
        => IF Len(errs) < max_retries
           THEN toutcome = "none" /\ tpc \in {"wait", "call"}
           ELSE /\ Len(errs) = max_retries
                /\ ncalls = max_retries
                /\ tpc = "done"
                /\ toutcome = "AudioProcessingError"
                /\ tcause = errs[max_retries]

\* C3 witness: five failures of the other kind, the last text differing
\* from the first, ended in AudioProcessingError
C3_Witness ==
    /\ Len(errs) = max_retries
    /\ \A k \in 1..Len(errs) : errs[k] \in {ErrOther, ErrServer}
    /\ errs[1] # errs[max_retries]
    /\ toutcome = "AudioProcessingError"
    /\ tcause = errs[max_retries]

(***************************************************************************)
(* Bounds of the interval inputs                                           *)
(***************************************************************************)

\* longest interval list drawn as input
MaxSegs == 3

\* instants (tenths of a second) the drawn intervals start and end at: they
\* straddle min_duration (4 < 5 <= 6), max_gap (12 <= 12 < 16) and
\* max_duration / the 30 s chunk limit (299 <= 300 < 305)
Instants == {0, 6, 10, 22, 305}

Intervals ==
    {seg \in [speaker : Speakers, start : Instants, end : Instants] :
        seg.start < seg.end}

\* the example of the merge documentation: (spk1,0,5) (spk1,5.5,8) (spk2,8.2,9)
ExampleSegs ==
    <<SpeakerSegment("spk1", 0, 50), SpeakerSegment("spk1", 55, 80),
      SpeakerSegment("spk2", 82, 90)>>

SeqsUpTo(S, n) == UNION {[1..k -> S] : k \in 0..n}

SegInputs == SeqsUpTo(Intervals, MaxSegs) \cup {ExampleSegs}

(***************************************************************************)
(* SegmentMerger and ChunkBuilder applied to drawn inputs                  *)
(***************************************************************************)

SegInit ==
    /\ LimOff
    /\ TrOff
    /\ PipeOff
    /\ StageOff
    /\ WhOff
    /\ segs \in SegInputs
    /\ sphase = "input"
    /\ merged = <<>>
    /\ remerged = <<>>
    /\ chunkLimit \in {WHISPER_CHUNK, DEFAULT_CHUNK}
    /\ chunkInput = <<>>
    /\ chunks = <<>>

\* merged_segments = merger.merge(speaker_segments)
DoMerge ==
    /\ sphase = "input"
    /\ merged' = Merge(segs)
    /\ sphase' = "merged"
    /\ UNCHANGED <<segs, remerged, chunkLimit, chunkInput, chunks>>
    /\ UNCHANGED notSeg

\* merge applied to its own output
DoRemerge ==
    /\ sphase = "merged"
    /\ remerged' = Merge(merged)
    /\ sphase' = "remerged"
    /\ UNCHANGED <<segs, merged, chunkLimit, chunkInput, chunks>>
    /\ UNCHANGED notSeg

\* chunks = chunk_builder.build(merged_segments)
DoBuildMerged ==
    /\ sphase = "merged"
    /\ chunkInput' = merged
    /\ chunks' = Build(merged, chunkLimit)
    /\ sphase' = "built"
    /\ UNCHANGED <<segs, merged, remerged, chunkLimit>>
    /\ UNCHANGED notSeg

\* ChunkBuilder.build on an interval list that did not go through merge
DoBuild ==
    /\ sphase = "input"
    /\ chunkInput' = segs
    /\ chunks' = Build(segs, chunkLimit)
    /\ sphase' = "built"
    /\ UNCHANGED <<segs, merged, remerged, chunkLimit>>
    /\ UNCHANGED notSeg

SegNext == DoMerge \/ DoRemerge \/ DoBuildMerged \/ DoBuild

SpecSegments == SegInit /\ [][SegNext]_vars

(***************************************************************************)
(* Properties of SegmentMerger.merge                                       *)
(***************************************************************************)

\* two intervals the merge rule would join: same speaker, gap within max_gap,
\* combined duration within max_duration
WithinMergeReach(a, b) ==
    /\ a.speaker = b.speaker
    /\ b.start - a.end <= max_gap
    /\ b.end - a.start <= max_duration

\* position of element i of S in start order, ties in original order
StartRank(S, i) ==
    1 + Cardinality({j \in 1..Len(S) :
                        \/ S[j].start < S[i].start
                        \/ (S[j].start = S[i].start /\ j < i)})

\* S in start order, ties keeping their original relative order
InStartOrder(S) ==
    [k \in 1..Len(S) |-> S[CHOOSE i \in 1..Len(S) : StartRank(S, i) = k]]

\* no two intervals adjacent in start order are within merge reach
NoAdjacentMergeable(S) ==
    LET T == InStartOrder(S)
    IN  \A i \in 1..(Len(T) - 1) : ~WithinMergeReach(T[i], T[i + 1])

AllLongEnough(S) == \A i \in 1..Len(S) : S[i].end - S[i].start >= min_duration

\* C7 as stated: for every interval sequence S in which no two adjacent
\* same-speaker intervals are within max_gap with combined duration <=
\* max_duration, merge(merge(S)) = merge(S).
C7_MergeIdempotentAsStated ==
    (sphase = "remerged" /\ NoAdjacentMergeable(segs)) => remerged = merged

\* C7 amended: for every interval sequence S whose intervals all last at
\* least min_duration and in which, in start order, no two adjacent
\* same-speaker intervals are within max_gap with combined duration <=
\* max_duration, merge(merge(S)) = merge(S).
C7_MergeIdempotent ==
    (sphase = "remerged" /\ NoAdjacentMergeable(segs) /\ AllLongEnough(segs))
        => remerged = merged

\* C7 witness: a three-interval input of two speakers that satisfies the
\* precondition has been merged twice
C7_Witness ==
    /\ sphase = "remerged"
    /\ Len(segs) = 3
    /\ NoAdjacentMergeable(segs)
    /\ AllLongEnough(segs)
    /\ \E i, j \in 1..3 : segs[i].speaker # segs[j].speaker
    /\ Len(merged) = 3

\* the pass of the merge documentation, as the state (accumulator, output)
\* after k intervals of the start-ordered list T
PassState(T) ==
    LET f[k \in 1..Len(T)] ==
            IF k = 1 THEN [cur |-> T[1], out |-> <<>>]
            ELSE LET p == f[k - 1]
                     nxt == T[k]
                 IN  IF WithinMergeReach(p.cur, nxt)
                     THEN [cur |-> [speaker |-> p.cur.speaker,
                                    start |-> p.cur.start, end |-> nxt.end],
                           out |-> p.out]
                     ELSE [cur |-> nxt,
                           out |-> IF p.cur.end - p.cur.start >= min_duration
                                   THEN p.out \o <<p.cur>> ELSE p.out]
    IN  f[Len(T)]

SpecifiedPass(S) ==
    IF Len(S) = 0 THEN <<>>
    ELSE LET p == PassState(InStartOrder(S))
         IN  IF p.cur.end - p.cur.start >= min_duration
             THEN p.out \o <<p.cur>> ELSE p.out

\* C8: merge returns exactly the result of the specified pass (stable sort
\* by start, then left to right merge into the accumulator iff same speaker,
\* gap <= max_gap and combined duration <= max_duration), and the documented
\* example yields [(spk1,0,8),(spk2,8.2,9)].
C8_MergeIsSpecifiedPass ==
    sphase = "merged" =>
        /\ merged = SpecifiedPass(segs)
        /\ segs = ExampleSegs =>
              merged = <<SpeakerSegment("spk1", 0, 80), SpeakerSegment("spk2", 82, 90)>>

\* C8 witness: the documented example has been merged into two intervals
C8_Witness ==
    /\ sphase = "merged"
    /\ segs = ExampleSegs
    /\ merged = <<SpeakerSegment("spk1", 0, 80), SpeakerSegment("spk2", 82, 90)>>

\* C9: every interval merge returns lasts at least min_duration; a short
\* accumulator is dropped at its flush and the next accumulator starts from
\* the next interval: every returned interval starts where an input interval
\* of its speaker starts and ends where a later-or-equal-starting input
\* interval of its speaker ends, and a dropped fragment's start is not
\* inherited.
C9_MergedLongEnough ==
    sphase = "merged" =>
        /\ \A i \in 1..Len(merged) :
              /\ merged[i].end - merged[i].start >= min_duration
              /\ \E a, b \in 1..Len(segs) :
                    /\ segs[a].speaker = merged[i].speaker
                    /\ segs[b].speaker = merged[i].speaker
                    /\ segs[a].start = merged[i].start
                    /\ segs[b].end = merged[i].end
                    /\ segs[a].start <= segs[b].start
        /\ (/\ Len(segs) = 2
            /\ segs[1].start < segs[2].start
            /\ ~WithinMergeReach(segs[1], segs[2])
            /\ segs[1].end - segs[1].start < min_duration
            /\ segs[2].end - segs[2].start >= min_duration)
              => merged = <<segs[2]>>

\* C9 witness: a short fragment followed by a long interval of another
\* speaker has been merged, and only the long one is returned
C9_Witness ==
    /\ sphase = "merged"
    /\ Len(segs) = 2
    /\ segs[1].start < segs[2].start
    /\ segs[1].speaker # segs[2].speaker
    /\ segs[1].end - segs[1].start < min_duration
    /\ merged = <<segs[2]>>

(***************************************************************************)
(* Properties of ChunkBuilder.build                                        *)
(***************************************************************************)

\* C10: every chunk build returns that holds two or more subsegments spans
\* at most max_chunk_duration; a chunk exceeds the limit only if it consists
\* of one interval that is itself longer than the limit.
C10_ChunkBound ==
    sphase = "built" =>
        \A i \in 1..Len(chunks) :
            LET c == chunks[i]
            IN  /\ Len(c.subsegments) >= 2 => c.end - c.start <= chunkLimit
                /\ c.end - c.start > chunkLimit =>
                      /\ Len(c.subsegments) = 1
                      /\ c.subsegments[1].end - c.subsegments[1].start > chunkLimit
                      /\ c.start = c.subsegments[1].start
                      /\ c.end = c.subsegments[1].end

\* C10 witness: build returned a chunk of two or more subsegments and a
\* chunk made of one over-long interval
C10_Witness ==
    /\ sphase = "built"
    /\ \E i \in 1..Len(chunks) : Len(chunks[i].subsegments) >= 2
    /\ \E i \in 1..Len(chunks) :
          /\ Len(chunks[i].subsegments) = 1
          /\ chunks[i].end - chunks[i].start > chunkLimit

\* the subsegment lists of the chunks, concatenated in chunk order
RECURSIVE ConcatSubsegments(_)
ConcatSubsegments(cs) ==
    IF cs = <<>> THEN <<>>
    ELSE Head(cs).subsegments \o ConcatSubsegments(Tail(cs))

\* C11: for every input sequence, sorted or not, the subsegment lists of the
\* chunks build returns, concatenated in chunk order, are exactly the input
\* sequence (each interval in one chunk, in the original order, none
\* duplicated or omitted), and no chunk is empty.
C11_ChunksPartitionInput ==
    sphase = "built" =>
        /\ ConcatSubsegments(chunks) = chunkInput
        /\ \A i \in 1..Len(chunks) : chunks[i].subsegments # <<>>

\* C11 witness: build, given three intervals not in start order, returned two
\* chunks, one of them holding two intervals
C11_Witness ==
    /\ sphase = "built"
    /\ Len(chunkInput) = 3
    /\ SortByStart(chunkInput) # chunkInput
    /\ Len(chunks) = 2
    /\ \E i \in 1..Len(chunks) : Len(chunks[i].subsegments) = 2

\* C12: when build is given an interval sequence the SegmentMerger returned,
\* an interval whose own duration exceeds max_chunk_duration is alone in
\* the chunk that contains it.
C12_OverlongIntervalAlone ==
    (sphase = "built" /\ chunkInput = Merge(segs)) =>
        \A i \in 1..Len(chunks) :
            \A j \in 1..Len(chunks[i].subsegments) :
                Duration(chunks[i].subsegments[j]) > chunkLimit =>
                    Len(chunks[i].subsegments) = 1

(***************************************************************************)
(* RTTMParser and TextSplitter applied to drawn inputs                     *)
(***************************************************************************)

\* words of the drawn texts
MaxWords == 4
Words == {<<"a">>, <<"b", ".">>}

\* the words joined by single spaces
Plain(ws) == Join(ws)

\* the words with a leading space and two spaces after each
RECURSIVE PadFrom(_)
PadFrom(ws) ==
    IF ws = <<>> THEN <<>> ELSE Head(ws) \o <<" ", " ">> \o PadFrom(Tail(ws))

Padded(ws) == <<" ">> \o PadFrom(ws)

\* "the quick brown fox jumps over", split over durations in ratio 0.6 / 0.4
ExampleText ==
    <<"t", "h", "e", " ", "q", "u", "i", "c", "k", " ", "b", "r", "o", "w", "n", " ",
      "f", "o", "x", " ", "j", "u", "m", "p", "s", " ", "o", "v", "e", "r">>
ExampleSplitSegs ==
    <<SpeakerSegment("spk1", 0, 60), SpeakerSegment("spk2", 60, 100)>>

\* 22 words spoken in 11 seconds, 7.5 s by one speaker and 3.5 s by the other
RoundingWords == 22
RoundingText == Join([k \in 1..RoundingWords |-> <<"w">>])
RoundingSegs ==
    <<SpeakerSegment("spk1", 0, 75), SpeakerSegment("spk2", 75, 110)>>

TextInputs ==
    {Plain(ws) : ws \in SeqsUpTo(Words, MaxWords)}
        \cup {Padded(ws) : ws \in SeqsUpTo(Words, MaxWords)}
        \cup {ExampleText, RoundingText}

\* intervals handed to split_by_speakers: multiples of half a second, one of
\* no duration and one that ends before it starts
MaxSplitSegs == 3
SplitIntervals ==
    {SpeakerSegment("spk1", 0, 15), SpeakerSegment("spk2", 15, 20),
     SpeakerSegment("spk1", 20, 50), SpeakerSegment("spk2", 20, 20),
     SpeakerSegment("spk2", 50, 20)}
SplitSegInputs ==
    SeqsUpTo(SplitIntervals, MaxSplitSegs) \cup {ExampleSplitSegs, RoundingSegs}

\* subsegments of a chunk handed to get_main_speaker: two speakers whose
\* summed durations can tie
ChunkIntervals ==
    {SpeakerSegment("spk1", 0, 10), SpeakerSegment("spk2", 10, 20),
     SpeakerSegment("spk1", 20, 25), SpeakerSegment("spk2", 25, 30)}
ChunkSegInputs == SeqsUpTo(ChunkIntervals, MaxSplitSegs)

\* records handed to merge_consecutive_speakers
MaxRecords == 3
Hello == <<"H", "e", "l", "l", "o">>
World == <<"w", "o", "r", "l", "d">>
Hi == <<"H", "i">>
HelloStop == <<"H", "e", "l", "l", "o", ".">>
HiBang == <<"H", "i", "!", " ">>
SoEllipsis == <<"s", "o", ELLIPSIS>>
RecordTexts == {Hello, World, Hi, HelloStop, HiBang, SoEllipsis}
Records == [speaker : Speakers, text : RecordTexts]
RecordInputs == SeqsUpTo(Records, MaxRecords)

\* lines of the drawn timing files: two well-formed ones (10 and 8 fields),
\* a comment of 5 fields, a line of 7 fields that float() would refuse, lines
\* of 8 fields or more with an unparsable start or duration, a failing read
MaxLines == 3
LineKinds ==
    {RttmLine(10, TRUE, 0, TRUE, 15, "spk1"), RttmLine(8, TRUE, 15, TRUE, 5, "spk2"),
     RttmLine(5, TRUE, 0, TRUE, 0, "spk1"), RttmLine(7, FALSE, 0, FALSE, 0, "spk2"),
     RttmLine(10, FALSE, 0, TRUE, 5, "spk2"), RttmLine(8, TRUE, 0, FALSE, 0, "spk1"),
     RttmLine(-1, FALSE, 0, FALSE, 0, "spk1")}
RttmInputs == SeqsUpTo(LineKinds, MaxLines)

\* one function and its input are drawn: split_by_speakers with a text and
\* intervals, merge / build with intervals, merge_consecutive_speakers with
\* records, or RTTMParser.parse with a timing file
StageInit ==
    /\ LimOff
    /\ TrOff
    /\ WhOff
    /\ merged = <<>>
    /\ remerged = <<>>
    /\ chunkInput = <<>>
    /\ chunks = <<>>
    /\ pexit = "none"
    /\ audio_len = 0
    /\ tempfiles = {}
    /\ ncleanups = 0
    /\ nruns = 0
    /\ ci = 0
    /\ transcribed = <<>>
    /\ final_segments = <<>>
    /\ preturned = FALSE
    /\ pret = <<>>
    /\ session = SessionDefaults
    /\ local_mode = FALSE
    /\ allocated = <<>>
    /\ main_speaker = NoSpeaker
    /\ records = <<>>
    /\ recOut = <<>>
    /\ recAfter = <<>>
    /\ \/ /\ xphase = "split_in"
          /\ textIn \in TextInputs
          /\ segs \in SplitSegInputs
          /\ sphase = "off"
          /\ chunkLimit = DEFAULT_CHUNK
          /\ recIn = <<>>
          /\ ppc = "off"
          /\ rttm = <<>>
       \/ /\ xphase = "split_in"
          /\ textIn = ExampleText
          /\ segs \in ChunkSegInputs
          /\ sphase = "off"
          /\ chunkLimit = DEFAULT_CHUNK
          /\ recIn = <<>>
          /\ ppc = "off"
          /\ rttm = <<>>
       \/ /\ xphase = "off"
          /\ textIn = <<>>
          /\ segs \in SplitSegInputs
          /\ sphase = "input"
          /\ chunkLimit \in {WHISPER_CHUNK, DEFAULT_CHUNK}
          /\ recIn = <<>>
          /\ ppc = "off"
          /\ rttm = <<>>
       \/ /\ xphase = "records_in"
          /\ textIn = <<>>
          /\ segs = <<>>
          /\ sphase = "off"
          /\ chunkLimit = DEFAULT_CHUNK
          /\ recIn \in RecordInputs
          /\ ppc = "off"
          /\ rttm = <<>>
       \/ /\ xphase = "off"
          /\ textIn = <<>>
          /\ segs = <<>>
          /\ sphase = "off"
          /\ chunkLimit = DEFAULT_CHUNK
          /\ recIn = <<>>
          /\ ppc = "parse"
          /\ rttm \in RttmInputs

\* main_speaker = get_main_speaker(chunk), the first statement of the loop
\* body, for a chunk with these subsegments
DoMainSpeaker ==
    /\ xphase = "split_in"
    /\ segs # <<>>
    /\ main_speaker = NoSpeaker
    /\ main_speaker' = GetMainSpeaker(segs)
    /\ UNCHANGED <<ppc, pexit, audio_len, rttm, tempfiles, ncleanups, nruns, ci, transcribed,
                   final_segments, preturned, pret, session, local_mode, allocated>>
    /\ UNCHANGED <<segVars, limVars, trVars, stageVars, whVars>>

\* distributed = TextSplitter.split_by_speakers(text, chunk.subsegments)
DoSplit ==
    /\ xphase = "split_in"
    /\ records' = SplitBySpeakers(textIn, segs)
    /\ xphase' = "split"
    /\ UNCHANGED <<textIn, recIn, recOut, recAfter>>
    /\ UNCHANGED <<segVars, limVars, trVars, pipeVars, whVars>>

\* TextSplitter.merge_consecutive_speakers(final_segments)
DoMergeRecords ==
    /\ xphase = "records_in"
    /\ recOut' = MergeConsecutiveSpeakers(recIn)
    /\ recAfter' = InputAfterMerge(recIn)
    /\ xphase' = "records"
    /\ UNCHANGED <<textIn, records, recIn>>
    /\ UNCHANGED <<segVars, limVars, trVars, pipeVars, whVars>>

\* merge_consecutive_speakers applied to the list it returned
DoRemergeRecords ==
    /\ xphase = "records"
    /\ recIn' = recOut
    /\ recOut' = MergeConsecutiveSpeakers(recOut)
    /\ recAfter' = InputAfterMerge(recOut)
    /\ xphase' = "records_again"
    /\ UNCHANGED <<textIn, records>>
    /\ UNCHANGED <<segVars, limVars, trVars, pipeVars, whVars>>

(***************************************************************************)
(* main() and run_transcription_pipeline                                   *)
(***************************************************************************)

\* timing files the diarization may write
RttmEmpty == <<>>
RttmUnparsable ==
    <<RttmLine(10, TRUE, 0, TRUE, 50, "spk1"), RttmLine(10, FALSE, 0, TRUE, 50, "spk2")>>
RttmShort ==
    <<RttmLine(5, TRUE, 0, TRUE, 0, "spk1"), RttmLine(10, TRUE, 0, TRUE, 8, "spk1")>>
RttmOneChunk ==
    <<RttmLine(10, TRUE, 0, TRUE, 20, "spk1"), RttmLine(10, TRUE, 25, TRUE, 20, "spk2"),
      RttmLine(10, TRUE, 50, TRUE, 30, "spk1")>>
RttmLong ==
    <<RttmLine(10, TRUE, 0, TRUE, 250, "spk1"), RttmLine(10, TRUE, 260, TRUE, 240, "spk2"),
      RttmLine(10, TRUE, 510, TRUE, 190, "spk1")>>
RttmFiles == {RttmEmpty, RttmUnparsable, RttmShort, RttmOneChunk, RttmLong}

\* lengths of the uploaded recording
AudioLens == {255, 700}

\* extensions of the uploaded file (the uploader takes wav, mp3, m4a, ogg, flac)
UploadExts == {"wav", "m4a"}

\* the files prepare_audio writes: a copy of the upload under its own name
\* and {stem}_normalized.wav
PreparedFiles(ext) == {<<"stem", ext>>, <<"stem_normalized", "wav">>}

\* the directory DiarizationService.run makes
DiarDir == <<"diar_stem", "dir">>

\* AudioTempCleaner.cleanup: unlinks {stem}_normalized.wav, {stem}.wav and
\* {stem}.mp3, removes the directory diar_{stem}
Cleaned(files) ==
    files \ {<<"stem_normalized", "wav">>, <<"stem", "wav">>, <<"stem", "mp3">>,
             <<"diar_stem", "dir">>}

\* pipeline runs followed in one session
MaxRuns == 2

\* the except clause keeps looping over the chunks
AfterFatalContinues == "chunk"

\* where control goes once the except clause of the pipeline has cleaned up:
\* st.stop() or raise leave the run
AfterFatal == "ended"

PipeInit ==
    /\ LimOff
    /\ TrOff
    /\ StageOff
    /\ WhOff
    /\ local_mode \in BOOLEAN
    /\ allocated = <<>>
    /\ main_speaker = NoSpeaker
    /\ segs = <<>>
    /\ sphase = "off"
    /\ merged = <<>>
    /\ remerged = <<>>
    /\ chunkLimit \in {WHISPER_CHUNK, DEFAULT_CHUNK}
    /\ chunkInput = <<>>
    /\ chunks = <<>>
    /\ ppc = "idle"
    /\ pexit = "none"
    /\ audio_len \in AudioLens
    /\ rttm = <<>>
    /\ tempfiles = {}
    /\ ncleanups = 0
    /\ nruns = 0
    /\ ci = 0
    /\ transcribed = <<>>
    /\ final_segments = <<>>
    /\ preturned = FALSE
    /\ pret = <<>>
    /\ session = SessionDefaults

\* main(): the start button is clicked; processing = True; prepare_audio;
\* run_transcription_pipeline is entered
PClick(ext) ==
    /\ ppc = "idle"
    /\ nruns < MaxRuns
    /\ ~session.processing
    /\ ~session.transcription_done
    /\ session' = [session EXCEPT !.processing = TRUE]
    /\ tempfiles' = tempfiles \cup PreparedFiles(ext)
    /\ nruns' = nruns + 1
    /\ ppc' = "diarize"
    /\ pexit' = "none"
    /\ preturned' = FALSE
    /\ ci' = 0
    /\ transcribed' = <<>>
    /\ allocated' = <<>>
    /\ UNCHANGED <<audio_len, local_mode, main_speaker, rttm, ncleanups, final_segments, pret>>
    /\ UNCHANGED <<segVars, limVars, trVars, stageVars, whVars>>

\* services["diarization"].run returns the path of a timing file
PDiarizeOk(file) ==
    /\ ppc = "diarize"
    /\ rttm' = file
    /\ tempfiles' = tempfiles \cup {DiarDir}
    /\ ppc' = "parse"
    /\ UNCHANGED <<pexit, audio_len, local_mode, main_speaker, ncleanups, nruns, ci, transcribed, allocated,
                   final_segments, preturned, pret, session>>
    /\ UNCHANGED <<segVars, limVars, trVars, stageVars, whVars>>

\* services["diarization"].run raises DiarizationError, before or after it
\* made its working directory: the error leaves run_transcription_pipeline
\* and main(), which catch nothing here
PDiarizeFail(made) ==
    /\ ppc = "diarize"
    /\ tempfiles' = IF made THEN tempfiles \cup {DiarDir} ELSE tempfiles
    /\ ppc' = "ended"
    /\ pexit' = "DiarizationError"
    /\ UNCHANGED <<audio_len, local_mode, main_speaker, rttm, ncleanups, nruns, ci, transcribed, allocated,
                   final_segments, preturned, pret, session>>
    /\ UNCHANGED <<segVars, limVars, trVars, stageVars, whVars>>

\* speaker_segments = RTTMParser.parse(rttm_path), which may raise DiarizationError
PParse ==
    /\ ppc = "parse"
    /\ IF ParseRaises(rttm)
       THEN /\ ppc' = "ended"
            /\ pexit' = "DiarizationError"
            /\ UNCHANGED segs
       ELSE /\ segs' = Parse(rttm)
            /\ ppc' = "segments"
            /\ UNCHANGED pexit
    /\ UNCHANGED <<audio_len, local_mode, main_speaker, rttm, tempfiles, ncleanups, nruns, ci, transcribed, allocated,
                   final_segments, preturned, pret, session>>
    /\ UNCHANGED <<sphase, merged, remerged, chunkLimit, chunkInput, chunks>>
    /\ UNCHANGED <<limVars, trVars, stageVars, whVars>>

\* merged_segments = merger.merge(...); chunks = chunk_builder.build(...);
\* final_segments = []
PSegments ==
    /\ ppc = "segments"
    /\ merged' = Merge(segs)
    /\ chunkInput' = Merge(segs)
    /\ chunks' = Build(Merge(segs), chunkLimit)
    /\ final_segments' = <<>>
    /\ ci' = 1
    /\ ppc' = "chunk"
    /\ UNCHANGED <<segs, sphase, remerged, chunkLimit>>
    /\ UNCHANGED <<pexit, audio_len, local_mode, main_speaker, rttm, tempfiles, ncleanups, nruns, transcribed, allocated,
                   preturned, pret, session>>
    /\ UNCHANGED <<limVars, trVars, stageVars, whVars>>

\* a slip: the new records are put in front of the transcript
ExtendRecordsInFront(final, distributed) == distributed \o final

\* final_segments.extend(distributed)
ExtendRecords(final, distributed) == final \o distributed

\* the slice of the recording chunk number i covers
ChunkSliceLen(i) == SliceLen(audio_len, chunks[i].start, chunks[i].end)

\* a slip: only a slice of no length is passed over
SliceTooShortOnlyEmpty(len) == len <= 0

\* `if len(audio_chunk) < 1000`
SliceTooShort(len) == len < MIN_SLICE

\* loop body up to `if len(audio_chunk) < 1000: continue`
PChunkSkipShort ==
    /\ ppc = "chunk"
    /\ ci <= Len(chunks)
    /\ main_speaker' = GetMainSpeaker(chunks[ci].subsegments)
    /\ SliceTooShort(ChunkSliceLen(ci))
    /\ ci' = ci + 1
    /\ UNCHANGED <<ppc, pexit, audio_len, local_mode, rttm, tempfiles, ncleanups, nruns, transcribed, allocated,
                   final_segments, preturned, pret, session>>
    /\ UNCHANGED <<segVars, limVars, trVars, stageVars, whVars>>

\* text = services["transcription"].transcribe(audio_chunk, audio_model) is called
PChunkTranscribe ==
    /\ ppc = "chunk"
    /\ ci <= Len(chunks)
    /\ main_speaker' = GetMainSpeaker(chunks[ci].subsegments)
    /\ ~SliceTooShort(ChunkSliceLen(ci))
    /\ ~local_mode
    /\ transcribed' = Append(transcribed, ci)
    /\ ppc' = "transcribing"
    /\ TBegin
    /\ UNCHANGED allocated
    /\ UNCHANGED <<pexit, audio_len, local_mode, rttm, tempfiles, ncleanups, nruns, ci,
                   final_segments, preturned, pret, session>>
    /\ UNCHANGED <<segVars, limVars, stageVars, whVars>>

\* model names of the local engine
WhisperModels == {"whisper-base", "whisper-small"}

\* st.session_state.audio_model of the run
SelectedModel == "whisper-base"

\* WhisperTranscriber.transcribe(audio_input, model_name) is entered
WBegin(name) ==
    /\ ntranscribes' = ntranscribes + 1
    /\ tpc' = "wload"
    /\ attempt' = 0
    /\ nwaits' = 0
    /\ ncalls' = 0
    /\ sleeps' = <<>>
    /\ errs' = <<>>
    /\ toutcome' = "none"
    /\ tret' = <<>>
    /\ tcause' = <<>>
    /\ model_name' = name
    /\ UNCHANGED <<model_cache, loads>>

\* a slip: the cache is not consulted
CacheMissAlways(name, cache) == TRUE

\* `if model_name not in self._model_cache`
CacheMiss(name, cache) == name \notin DOMAIN cache

\* self._model_cache[model_name] = weights
CachePut(cache, name, weights) ==
    [k \in DOMAIN cache \cup {name} |-> IF k = name THEN weights ELSE cache[k]]

\* _load_model: the name is in the cache, its weights are returned
WLoadHit ==
    /\ tpc = "wload"
    /\ ~CacheMiss(model_name, model_cache)
    /\ tpc' = "whisper"
    /\ UNCHANGED <<ntranscribes, attempt, nwaits, ncalls, sleeps, errs, toutcome, tret, tcause>>
    /\ UNCHANGED whVars
    /\ UNCHANGED <<segVars, limVars, pipeVars, stageVars>>

\* _load_model: the name is not in the cache, whisper.load_model returns the
\* weights (named by the rank of the load) and they are stored
WLoadMiss ==
    /\ tpc = "wload"
    /\ CacheMiss(model_name, model_cache)
    /\ loads' = Append(loads, model_name)
    /\ model_cache' = CachePut(model_cache, model_name, Len(loads) + 1)
    /\ tpc' = "whisper"
    /\ UNCHANGED <<ntranscribes, attempt, nwaits, ncalls, sleeps, errs, toutcome, tret, tcause>>
    /\ UNCHANGED model_name
    /\ UNCHANGED <<segVars, limVars, pipeVars, stageVars>>

\* _load_model: the name is not in the cache and whisper.load_model raises e;
\* the except clause of transcribe raises AudioProcessingError from e
WLoadErr(e) ==
    /\ tpc = "wload"
    /\ CacheMiss(model_name, model_cache)
    /\ errs' = Append(errs, e)
    /\ toutcome' = "AudioProcessingError"
    /\ tcause' = e
    /\ tpc' = "done"
    /\ UNCHANGED <<ntranscribes, attempt, nwaits, ncalls, sleeps, tret>>
    /\ UNCHANGED whVars
    /\ UNCHANGED <<segVars, limVars, pipeVars, stageVars>>

\* the model is loaded and reading the audio (AudioSegment.from_file,
\* AudioConverter.to_numpy) raises e before model.transcribe is called;
\* raise AudioProcessingError from e
WConvertErr(e) ==
    /\ tpc = "whisper"
    /\ errs' = Append(errs, e)
    /\ toutcome' = "AudioProcessingError"
    /\ tcause' = e
    /\ tpc' = "done"
    /\ UNCHANGED <<ntranscribes, attempt, nwaits, ncalls, sleeps, tret>>
    /\ UNCHANGED limVars
    /\ UNCHANGED notTr

\* local mode: text = services["transcription"].transcribe(...) enters
\* WhisperTranscriber.transcribe
PChunkTranscribeLocal ==
    /\ ppc = "chunk"
    /\ ci <= Len(chunks)
    /\ main_speaker' = GetMainSpeaker(chunks[ci].subsegments)
    /\ ~SliceTooShort(ChunkSliceLen(ci))
    /\ local_mode
    /\ transcribed' = Append(transcribed, ci)
    /\ ppc' = "transcribing"
    /\ WBegin(SelectedModel)
    /\ UNCHANGED <<pexit, audio_len, local_mode, rttm, tempfiles, ncleanups, nruns, ci,
                   final_segments, preturned, pret, session, allocated>>
    /\ UNCHANGED <<segVars, limVars, stageVars>>

\* WhisperTranscriber.transcribe: model.transcribe returns; return result["text"]
WCallOk(t) ==
    /\ tpc = "whisper"
    /\ ncalls' = ncalls + 1
    /\ tret' = t
    /\ toutcome' = "returned"
    /\ tpc' = "done"
    /\ UNCHANGED <<ntranscribes, attempt, nwaits, sleeps, errs, tcause>>
    /\ UNCHANGED limVars
    /\ UNCHANGED notTr

\* a slip: a failed inference is tried once more
WCallErrRetries(e) ==
    /\ tpc = "whisper"
    /\ ncalls' = ncalls + 1
    /\ errs' = Append(errs, e)
    /\ toutcome' = IF ncalls = 0 THEN "none" ELSE "AudioProcessingError"
    /\ tcause' = IF ncalls = 0 THEN tcause ELSE e
    /\ tpc' = IF ncalls = 0 THEN "whisper" ELSE "done"
    /\ UNCHANGED <<ntranscribes, attempt, nwaits, sleeps, tret>>
    /\ UNCHANGED limVars
    /\ UNCHANGED notTr

\* WhisperTranscriber.transcribe: model.transcribe raises e;
\* raise AudioProcessingError from e
WCallErr(e) ==
    /\ tpc = "whisper"
    /\ ncalls' = ncalls + 1
    /\ errs' = Append(errs, e)
    /\ toutcome' = "AudioProcessingError"
    /\ tcause' = e
    /\ tpc' = "done"
    /\ UNCHANGED <<ntranscribes, attempt, nwaits, sleeps, tret>>
    /\ UNCHANGED limVars
    /\ UNCHANGED notTr

\* a slip: a chunk without text leaves a record without text
ChunkRecordsPlaceholder(text, subsegments) ==
    IF text = <<>>
    THEN <<[speaker |-> subsegments[1].speaker, text |-> <<>>]>>
    ELSE SplitBySpeakers(text, subsegments)

\* `if not text: continue`, else
\* distributed = TextSplitter.split_by_speakers(text, chunk.subsegments)
ChunkRecords(text, subsegments) ==
    IF text = <<>> THEN <<>> ELSE SplitBySpeakers(text, subsegments)

\* transcribe returned text: `if not text: continue`, else split_by_speakers
\* and final_segments.extend(distributed)
PChunkText ==
    /\ ppc = "transcribing"
    /\ tpc = "done"
    /\ toutcome = "returned"
    /\ final_segments' =
          ExtendRecords(final_segments, ChunkRecords(tret, chunks[ci].subsegments))
    /\ allocated' = Append(allocated, [chunk |-> ci, text |-> tret])
    /\ ci' = ci + 1
    /\ ppc' = "chunk"
    /\ UNCHANGED <<pexit, audio_len, local_mode, main_speaker, rttm, tempfiles, ncleanups, nruns,
                   transcribed, preturned, pret, session>>
    /\ UNCHANGED <<segVars, limVars, trVars, stageVars, whVars>>

\* transcribe raised: except DailyQuotaExceededError (cleanup, st.stop()) or
\* except Exception (cleanup, raise)
PChunkFatal ==
    /\ ppc = "transcribing"
    /\ tpc = "done"
    /\ toutcome \in {"DailyQuotaExceededError", "AudioProcessingError"}
    /\ tempfiles' = Cleaned(tempfiles)
    /\ ncleanups' = ncleanups + 1
    /\ UNCHANGED nruns
    /\ pexit' = IF toutcome = "DailyQuotaExceededError" THEN "stopped" ELSE toutcome
    /\ ppc' = AfterFatal
    /\ UNCHANGED <<audio_len, local_mode, main_speaker, rttm, ci, transcribed, allocated, final_segments,
                   preturned, pret, session>>
    /\ UNCHANGED <<segVars, limVars, trVars, stageVars, whVars>>

\* after the loop: merge_consecutive_speakers, cleanup, return final_segments
PFinish ==
    /\ ppc = "chunk"
    /\ ci > Len(chunks)
    /\ final_segments' = MergeConsecutiveSpeakers(final_segments)
    /\ tempfiles' = Cleaned(tempfiles)
    /\ ncleanups' = ncleanups + 1
    /\ UNCHANGED nruns
    /\ preturned' = TRUE
    /\ pret' = MergeConsecutiveSpeakers(final_segments)
    /\ ppc' = "save"
    /\ UNCHANGED <<pexit, audio_len, local_mode, main_speaker, rttm, ci, transcribed, allocated, session>>
    /\ UNCHANGED <<segVars, limVars, trVars, stageVars, whVars>>

\* main(): save_transcription, then the session state is filled in
PSave ==
    /\ ppc = "save"
    /\ session' = [processing |-> FALSE, transcription_done |-> TRUE,
                   final_segments |-> pret, docx_transcription |-> TRUE]
    /\ pexit' = "completed"
    /\ ppc' = "ended"
    /\ UNCHANGED <<audio_len, local_mode, main_speaker, rttm, tempfiles, ncleanups, nruns, ci, transcribed, allocated,
                   final_segments, preturned, pret>>
    /\ UNCHANGED <<segVars, limVars, trVars, stageVars, whVars>>

\* the script run is over and its frames are gone; the script runs again on
\* the next interaction: main() up to the start button.  What is on disk and
\* in st.session_state stays.
PRerun ==
    /\ ppc = "ended"
    /\ ppc' = "idle"
    /\ rttm' = <<>>
    /\ final_segments' = <<>>
    /\ pret' = <<>>
    /\ segs' = <<>>
    /\ merged' = <<>>
    /\ chunkInput' = <<>>
    /\ chunks' = <<>>
    /\ ntranscribes' = 0
    /\ tpc' = "idle"
    /\ attempt' = 0
    /\ nwaits' = 0
    /\ ncalls' = 0
    /\ sleeps' = <<>>
    /\ errs' = <<>>
    /\ toutcome' = "none"
    /\ tret' = <<>>
    /\ tcause' = <<>>
    /\ allocated' = <<>>
    /\ model_name' = NoModel
    /\ model_cache' = <<>>
    /\ loads' = <<>>
    /\ main_speaker' = NoSpeaker
    /\ UNCHANGED <<pexit, audio_len, local_mode, tempfiles, ncleanups, nruns, ci,
                   transcribed, preturned, session>>
    /\ UNCHANGED <<sphase, remerged, chunkLimit>>
    /\ UNCHANGED <<limVars, stageVars>>

\* the "Nouvelle transcription" button of the results section: every key of
\* the session state is deleted, st.rerun(), init_session_state
PReset ==
    /\ ppc = "idle"
    /\ session.docx_transcription
    /\ session' = SessionDefaults
    /\ UNCHANGED <<ppc, pexit, audio_len, local_mode, main_speaker, rttm, tempfiles, ncleanups, nruns, ci,
                   transcribed, allocated, final_segments, preturned, pret>>
    /\ UNCHANGED <<segVars, limVars, trVars, stageVars, whVars>>

Next ==
    \/ \E ext \in UploadExts : PClick(ext)
    \/ \E file \in RttmFiles : PDiarizeOk(file)
    \/ \E made \in BOOLEAN : PDiarizeFail(made)
    \/ PParse
    \/ PSegments
    \/ PChunkSkipShort
    \/ PChunkTranscribe
    \/ PChunkTranscribeLocal
    \/ WLoadHit
    \/ WLoadMiss
    \/ \E e \in ErrorTexts : WLoadErr(e)
    \/ \E e \in ErrorTexts : WConvertErr(e)
    \/ \E t \in ResponseTexts : WCallOk(t)
    \/ \E e \in ErrorTexts : WCallErr(e)
    \/ TWait
    \/ \E text \in ResponseTexts : TCallOk(text)
    \/ \E e \in ErrorTexts : TCallErr(e)
    \/ PChunkText
    \/ PChunkFatal
    \/ PFinish
    \/ PSave
    \/ PRerun
    \/ PReset

Spec == PipeInit /\ [][Next]_vars

\* calls of transcribe followed on one WhisperTranscriber
MaxLocalCalls == 3

\* a caller invokes transcribe() on a WhisperTranscriber that is not in a call
WCall(name) ==
    /\ tpc \in {"idle", "done"}
    /\ ntranscribes < MaxLocalCalls
    /\ WBegin(name)
    /\ UNCHANGED <<segVars, limVars, pipeVars, stageVars>>

WhNext ==
    \/ \E name \in WhisperModels : WCall(name)
    \/ WLoadHit
    \/ WLoadMiss
    \/ \E e \in ErrorTexts : WLoadErr(e)
    \/ \E e \in ErrorTexts : WConvertErr(e)
    \/ \E t \in ResponseTexts : WCallOk(t)
    \/ \E e \in ErrorTexts : WCallErr(e)

WhInit == WhOff /\ TrOff /\ LimOff /\ SegOff /\ PipeOff /\ StageOff

SpecWhisper == WhInit /\ [][WhNext]_vars

\* the stages applied one at a time to drawn inputs
StageNext == DoMainSpeaker \/ DoSplit \/ DoMergeRecords \/ DoRemergeRecords \/ DoMerge \/ DoBuild \/ PParse

SpecStages == StageInit /\ [][StageNext]_vars

(***************************************************************************)
(* Properties of the pipeline run                                          *)
(***************************************************************************)

\* control has left the run of run_transcription_pipeline started last
LeftRun == nruns > 0 /\ ppc \in {"save", "ended", "idle"}

\* the run left on a fatal error of the transcription of a chunk
FatalExit == pexit \in {"stopped", "AudioProcessingError"}

\* C5: every exit path of a pipeline run, a DiarizationError raised by the
\* diarization engine or by the timing-file parser before the first chunk
\* included, has executed AudioTempCleaner.cleanup before control leaves
\* the run.
C5_EveryExitReleases ==
    LeftRun => ncleanups = nruns

\* C6: when the transcription of chunk k raised DailyQuotaExceededError or
\* AudioProcessingError, control has left the chunk loop with chunk k the
\* last chunk handed to the transcription service, run_transcription_pipeline
\* returned nothing, and session_state holds no transcript: final_segments
\* is empty, transcription_done and docx_transcription are unset.
C6_FatalAbortsAndDiscards ==
    FatalExit =>
        /\ ppc \in {"ended", "idle"}
        /\ transcribed # <<>>
        /\ transcribed[Len(transcribed)] = ci
        /\ \A j \in 1..(Len(transcribed) - 1) : transcribed[j] < transcribed[j + 1]
        /\ ~preturned
        /\ session.final_segments = <<>>
        /\ ~session.transcription_done
        /\ ~session.docx_transcription

\* C6 witness: of three chunks the first gave records, the second raised the
\* quota error; the run has ended with the third never transcribed
C6_Witness ==
    /\ ppc = "ended"
    /\ pexit = "stopped"
    /\ Len(chunks) = 3
    /\ transcribed = <<1, 2>>
    /\ final_segments # <<>>
    /\ ~preturned
    /\ session.final_segments = <<>>

(***************************************************************************)
(* Properties of TextSplitter.split_by_speakers                            *)
(***************************************************************************)

\* the text holds nothing but whitespace
Blank(t) == \A k \in 1..Len(t) : t[k] = " "

\* split_by_speakers was applied to a text that is not blank and to a
\* non-empty interval list of positive total duration
SplitApplied ==
    /\ xphase = "split"
    /\ ~Blank(textIn)
    /\ segs # <<>>
    /\ TotalDuration(segs) > 0

\* the words of the records' texts, in record order
RECURSIVE WordsOf(_)
WordsOf(rs) ==
    IF rs = <<>> THEN <<>> ELSE Split(Head(rs).text) \o WordsOf(Tail(rs))

\* C13: for split_by_speakers on a text that is not blank and a non-empty
\* interval list of positive total duration, the words of the returned
\* records, concatenated in record order, are exactly the whitespace-separated
\* words of the text in their order: none duplicated, dropped or reordered.
C13_WordsConserved ==
    SplitApplied => WordsOf(records) = Split(textIn)

\* C13 witness: a padded text of four words was split over three intervals
\* into two records or more, the last of which received the leftover word
C13_Witness ==
    /\ SplitApplied
    /\ textIn[1] = " "
    /\ Len(Split(textIn)) = 4
    /\ Len(segs) = 3
    /\ Len(records) >= 2
    /\ Len(Split(records[Len(records)].text)) >
          WordCount(segs[Len(records)], TotalDuration(segs), 4)

(***************************************************************************)
(* Properties of TextSplitter.merge_consecutive_speakers                   *)
(***************************************************************************)

\* the last character of the text that is not a space is one of . ! ? U+2026
EndsInTerminal(t) ==
    \E i \in 1..Len(t) :
        /\ t[i] \in {".", "!", "?", ELLIPSIS}
        /\ \A j \in (i + 1)..Len(t) : t[j] = " "

\* the accumulator and the records emitted once the first k records of R
\* have been taken, by the rule as documented
RECURSIVE MergedAfter(_, _)
MergedAfter(R, k) ==
    IF k = 1 THEN [acc |-> R[1], out |-> <<>>]
    ELSE LET p == MergedAfter(R, k - 1)
         IN  IF R[k].speaker = p.acc.speaker /\ ~EndsInTerminal(p.acc.text)
             THEN [acc |-> [speaker |-> p.acc.speaker,
                            text |-> p.acc.text \o <<" ">> \o R[k].text],
                   out |-> p.out]
             ELSE [acc |-> R[k], out |-> Append(p.out, p.acc)]

DocumentedMerge(R) ==
    IF R = <<>> THEN <<>>
    ELSE Append(MergedAfter(R, Len(R)).out, MergedAfter(R, Len(R)).acc)

HelloWorldRecords ==
    <<[speaker |-> "spk1", text |-> Hello], [speaker |-> "spk1", text |-> World],
      [speaker |-> "spk2", text |-> Hi]>>
HelloStopRecords ==
    <<[speaker |-> "spk1", text |-> HelloStop], [speaker |-> "spk1", text |-> World],
      [speaker |-> "spk2", text |-> Hi]>>

\* C14: merge_consecutive_speakers merges the next record into the
\* accumulator, texts joined by one space, exactly when both have the same
\* speaker and the accumulator's trimmed text does not end in . ! ? or
\* U+2026, and otherwise emits the accumulator and starts a new one; the
\* records Hello, world (spk1), Hi (spk2) give "Hello world", Hi, and with
\* "Hello." the three records stay as they are.
C14_MergeRule ==
    xphase = "records" =>
        /\ recOut = DocumentedMerge(recIn)
        /\ recIn = HelloWorldRecords =>
              recOut = <<[speaker |-> "spk1", text |-> Hello \o <<" ">> \o World],
                         [speaker |-> "spk2", text |-> Hi]>>
        /\ recIn = HelloStopRecords => recOut = HelloStopRecords

\* C14 witness: the documented example was merged
C14_Witness ==
    /\ xphase = "records"
    /\ recIn = HelloWorldRecords
    /\ Len(recOut) = 2
    /\ recOut[1].text = Hello \o <<" ">> \o World

(***************************************************************************)
(* Order of the pipeline loop                                              *)
(***************************************************************************)

\* the records of the texts received so far: chunk by chunk in the order
\* received, and within a chunk in subsegment order
RECURSIVE RecordsInOrder(_)
RecordsInOrder(als) ==
    IF als = <<>> THEN <<>>
    ELSE SplitBySpeakers(Head(als).text, chunks[Head(als).chunk].subsegments)
             \o RecordsInOrder(Tail(als))

\* a call of the transcription service is in progress
CallInProgress == tpc \in {"wait", "call", "whisper"}

\* C15: in a pipeline run chunks are transcribed one at a time in chunk-list
\* order; the call for a chunk starts only when the text of every chunk
\* transcribed before it has been allocated to records; and the transcript
\* keeps speaking order: its records are those of the chunks in chunk order
\* and, within a chunk, in subsegment order (consecutive records of one
\* speaker joined at the end), never regrouped by speaker.
C15_ChunksInOrder ==
    /\ \A j \in 1..(Len(transcribed) - 1) : transcribed[j] < transcribed[j + 1]
    /\ \A j \in 1..Len(allocated) : allocated[j].chunk = transcribed[j]
    /\ CallInProgress =>
          /\ ppc = "transcribing"
          /\ transcribed[Len(transcribed)] = ci
    /\ ppc = "transcribing" => Len(allocated) = Len(transcribed) - 1
    /\ ppc = "chunk" =>
          /\ Len(allocated) = Len(transcribed)
          /\ final_segments = RecordsInOrder(allocated)
    /\ ppc = "save" => pret = MergeConsecutiveSpeakers(RecordsInOrder(allocated))

\* C15 witness: three chunks gave text one after the other and the
\* transcript returned names the speakers in speaking order, spk1 spk2 spk1
C15_Witness ==
    /\ ppc = "save"
    /\ transcribed = <<1, 2, 3>>
    /\ Len(allocated) = 3
    /\ Len(pret) = 3
    /\ pret[1].speaker = "spk1"
    /\ pret[2].speaker = "spk2"
    /\ pret[3].speaker = "spk1"
    /\ pret[1].text # pret[3].text

(***************************************************************************)
(* Properties of RTTMParser.parse                                          *)
(***************************************************************************)

\* RTTMParser.parse was applied to the drawn timing file
ParseApplied == xphase = "off" /\ sphase = "off" /\ ppc \in {"segments", "ended"}

\* the line has 8 fields or more and an unparsable start or duration, or is
\* the point where reading the file fails
Unusable(line) ==
    \/ line.nfields < 0
    \/ line.nfields >= 8 /\ (~line.startOk \/ ~line.durationOk)

\* the lines of 8 fields or more, in file order
LongLines(lines) == SelectSeq(lines, LAMBDA l : l.nfields >= 8)

\* C16: parse is all-or-nothing.  If no line of 8 fields or more has an
\* unparsable start or duration and the file can be read, the call returns
\* one interval for each line of 8 fields or more, in file order, with the
\* line's speaker and start and end = start + duration, shorter lines being
\* skipped without error; otherwise it raises DiarizationError and returns
\* none of the intervals parsed before the failure.
C16_ParseAllOrNothing ==
    ParseApplied =>
        IF \E k \in 1..Len(rttm) : Unusable(rttm[k])
        THEN /\ ppc = "ended"
             /\ pexit = "DiarizationError"
             /\ segs = <<>>
        ELSE /\ ppc = "segments"
             /\ pexit = "none"
             /\ Len(segs) = Len(LongLines(rttm))
             /\ \A k \in 1..Len(segs) :
                   /\ segs[k].speaker = LongLines(rttm)[k].speaker
                   /\ segs[k].start = LongLines(rttm)[k].start
                   /\ segs[k].end = LongLines(rttm)[k].start + LongLines(rttm)[k].duration

\* C16 witness: a file whose third line has an unparsable duration, after a
\* well-formed line and a short line, made parse raise
C16_Witness ==
    /\ ParseApplied
    /\ Len(rttm) = 3
    /\ rttm[1].nfields >= 8 /\ rttm[1].startOk /\ rttm[1].durationOk
    /\ rttm[2].nfields \in 0..7
    /\ rttm[3].nfields >= 8 /\ ~rttm[3].durationOk
    /\ pexit = "DiarizationError"
    /\ segs = <<>>

(***************************************************************************)
(* Empty inputs                                                            *)
(***************************************************************************)

\* C17: empty inputs give empty outputs, without error, at every stage: an
\* empty timing file parses to an empty interval list, merge of no interval
\* is empty, build of no interval is empty, and split_by_speakers returns no
\* record for an empty or whitespace-only text, for an empty interval list
\* and for intervals whose total duration is zero or negative.
C17_EmptyInEmptyOut ==
    /\ (ParseApplied /\ rttm = <<>>) =>
          (ppc = "segments" /\ pexit = "none" /\ segs = <<>>)
    /\ (sphase = "merged" /\ segs = <<>>) => merged = <<>>
    /\ (sphase = "built" /\ chunkInput = <<>>) => chunks = <<>>
    /\ (xphase = "split" /\ (Blank(textIn) \/ segs = <<>> \/ TotalDuration(segs) <= 0)) =>
          records = <<>>

\* C17 witness: split_by_speakers was given a text with words and intervals
\* whose durations sum to less than zero, and returned no record
C17_Witness ==
    /\ xphase = "split"
    /\ Split(textIn) # <<>>
    /\ segs # <<>>
    /\ TotalDuration(segs) < 0
    /\ records = <<>>

(***************************************************************************)
(* The word allocation of split_by_speakers                                *)
(***************************************************************************)

\* the allocation as documented: subsegment i takes the next
\* min(max(1, floor(duration_i * N / D)), words left) words from the cursor,
\* and produces a record when it took any
RECURSIVE StatedLoop(_, _, _, _, _, _)
StatedLoop(segments, i, words, D, cursor, out) ==
    IF i > Len(segments)
    THEN [results |-> out, cursor |-> cursor]
    ELSE LET take == Min(WordCountExact(segments[i], D, Len(words)),
                         Len(words) - cursor)
         IN  StatedLoop(segments, i + 1, words, D, cursor + take,
                        IF take > 0
                        THEN Append(out, [speaker |-> segments[i].speaker,
                                          text |-> Join(SubSeq(words, cursor + 1,
                                                               cursor + take))])
                        ELSE out)

\* the documented allocation, the words left after the last subsegment
\* appended to the last produced record
StatedAllocation(words, segments) ==
    LET r == StatedLoop(segments, 1, words, TotalDuration(segments), 0, <<>>)
        n == Len(r.results)
    IN  IF r.cursor < Len(words) /\ n > 0
        THEN [r.results EXCEPT ![n].text =
                  @ \o <<" ">> \o Join(SubSeq(words, r.cursor + 1, Len(words)))]
        ELSE r.results

\* "the quick brown" and "fox jumps over"
TheQuickBrown == SubSeq(ExampleText, 1, 15)
FoxJumpsOver == SubSeq(ExampleText, 17, 30)

\* C18: in split_by_speakers with N words and total duration D, subsegment i
\* takes the next min(max(1, floor(duration_i * N / D)), words left) words
\* contiguously from the cursor, the slices never overlap, and the words left
\* after the last subsegment are appended to the last produced record; six
\* words over two intervals of ratio 0.6/0.4 give "the quick brown" and
\* "fox jumps over".
C18_AllocationAsStated ==
    /\ SplitApplied => records = StatedAllocation(Split(textIn), segs)
    /\ (xphase = "split" /\ textIn = ExampleText /\ segs = ExampleSplitSegs) =>
          /\ Len(records) = 2
          /\ records[1].text = TheQuickBrown
          /\ records[2].text = FoxJumpsOver

(***************************************************************************)
(* Chunks the loop passes over                                             *)
(***************************************************************************)

\* the loop is at a chunk whose slice of the recording is under one second
AtShortChunk ==
    /\ ppc = "chunk"
    /\ ci <= Len(chunks)
    /\ ChunkSliceLen(ci) < MIN_SLICE

\* C19: in the pipeline loop, a chunk whose extracted slice is shorter than
\* 1000 ms is skipped entirely: the step taken from it starts no transcribe
\* call and no request, adds no record to the transcript and raises nothing,
\* and leaves the loop at the next chunk.
C19_ShortSliceSkipped ==
    [][AtShortChunk =>
          /\ ppc' = "chunk"
          /\ ci' = ci + 1
          /\ ntranscribes' = ntranscribes
          /\ ncalls' = ncalls
          /\ tpc' = tpc
          /\ transcribed' = transcribed
          /\ allocated' = allocated
          /\ final_segments' = final_segments
          /\ pexit' = pexit]_vars

\* C19 witness: a chunk with a slice under one second, but not empty, was
\* passed over without a transcribe call, and the loop has gone on
C19_Witness ==
    /\ ppc = "chunk"
    /\ ci > 1
    /\ ChunkSliceLen(ci - 1) < MIN_SLICE
    /\ ChunkSliceLen(ci - 1) > 0
    /\ \A k \in 1..Len(transcribed) : transcribed[k] # ci - 1
    /\ ntranscribes = 0

\* transcribe has returned, to the loop, a text that is empty or only blanks
BlankTextReturned ==
    /\ ppc = "transcribing"
    /\ tpc = "done"
    /\ toutcome = "returned"
    /\ Blank(tret)

\* C20: in local and in remote mode, a chunk whose transcribed text is empty
\* or whitespace-only adds no record to the transcript and raises no error:
\* the step taken when such a text is returned leaves the transcript as it
\* was, cleans nothing up, and leaves the loop at the next chunk.
C20_BlankTextSkipped ==
    [][BlankTextReturned =>
          /\ final_segments' = final_segments
          /\ pexit' = pexit
          /\ ncleanups' = ncleanups
          /\ ppc' = "chunk"
          /\ ci' = ci + 1]_vars

\* C20 witness: in local mode the engine returned a single blank, which the
\* loop's `if not text` lets through; no record came of it and the loop is
\* at a further chunk
C20_Witness ==
    /\ local_mode
    /\ ppc = "chunk"
    /\ pexit = "none"
    /\ ci <= Len(chunks)
    /\ allocated # <<>>
    /\ allocated[Len(allocated)] = [chunk |-> ci - 1, text |-> <<" ">>]
    /\ final_segments = <<>>

(***************************************************************************)
(* The main speaker of a chunk                                             *)
(***************************************************************************)

\* the summed duration of the subsegments of one speaker
RECURSIVE SummedDuration(_, _, _)
SummedDuration(subsegments, speaker, i) ==
    IF i > Len(subsegments) THEN 0
    ELSE SummedDuration(subsegments, speaker, i + 1)
         + (IF subsegments[i].speaker = speaker
            THEN subsegments[i].end - subsegments[i].start ELSE 0)

\* the position of the first subsegment of a speaker
FirstAt(subsegments, speaker) ==
    CHOOSE i \in 1..Len(subsegments) :
        /\ subsegments[i].speaker = speaker
        /\ \A j \in 1..(i - 1) : subsegments[j].speaker # speaker

\* speaker m has the greatest summed duration and, among the speakers with
\* that sum, the earliest first subsegment
DominantFirst(subsegments, m) ==
    /\ \E i \in 1..Len(subsegments) : subsegments[i].speaker = m
    /\ \A i \in 1..Len(subsegments) :
          LET s == subsegments[i].speaker
          IN  /\ SummedDuration(subsegments, s, 1) <= SummedDuration(subsegments, m, 1)
              /\ SummedDuration(subsegments, s, 1) = SummedDuration(subsegments, m, 1)
                    => FirstAt(subsegments, m) <= FirstAt(subsegments, s)

\* C21: get_main_speaker returns the speaker whose summed subsegment duration
\* in the chunk is greatest and, when several speakers tie for the greatest
\* sum, the one that appears first in subsegment order; the words allocated
\* afterwards go to the subsegments' own speakers in subsegment order,
\* whichever speaker was returned.
C21_MainSpeaker ==
    /\ (xphase \in {"split_in", "split"} /\ main_speaker # NoSpeaker) =>
          DominantFirst(segs, main_speaker)
    /\ xphase = "split" =>
          /\ Len(records) <= Len(segs)
          /\ \A j \in 1..Len(records) : records[j].speaker = segs[j].speaker

\* C21 witness: two speakers tie for the greatest sum, the speaker that has
\* the longest single subsegment comes second, the first one was returned,
\* and the allocation gave words to the other speaker as well
C21_Witness ==
    /\ xphase = "split"
    /\ Len(segs) = 3
    /\ segs[1].speaker = "spk1"
    /\ segs[2].speaker = "spk2"
    /\ SummedDuration(segs, "spk1", 1) = SummedDuration(segs, "spk2", 1)
    /\ main_speaker = "spk1"
    /\ \E j \in 1..Len(records) : records[j].speaker = "spk2"

(***************************************************************************)
(* WhisperTranscriber                                                      *)
(***************************************************************************)

\* a call of WhisperTranscriber.transcribe is over
LocalCallOver == model_name # NoModel /\ tpc = "done"

\* the call made no retry, no backoff sleep and no wait on a rate limiter,
\* and what it raised is an AudioProcessingError wrapping the one failure
NoRetryAndWrapped ==
    /\ attempt = 0
    /\ nwaits = 0
    /\ sleeps = <<>>
    /\ nreturns = 0
    /\ Len(errs) <= 1
    /\ errs # <<>> <=> toutcome = "AudioProcessingError"
    /\ errs # <<>> => tcause = errs[1]

\* C22 as stated: WhisperTranscriber.transcribe performs exactly one
\* inference attempt per call, with no retry, no backoff and no rate-limiter
\* wait, and any exception is raised as AudioProcessingError wrapping the
\* cause.
C22_ExactlyOneInference ==
    LocalCallOver => (ncalls = 1 /\ NoRetryAndWrapped)

\* C22 amended: WhisperTranscriber.transcribe performs at most one inference
\* attempt per call, exactly one when it returns a text and none when
\* loading the model or reading the audio raises first, with no retry, no
\* backoff and no rate-limiter wait, and any exception is raised as
\* AudioProcessingError wrapping the cause.
C22_AtMostOneInference ==
    LocalCallOver =>
        /\ ncalls <= 1
        /\ toutcome = "returned" => ncalls = 1
        /\ NoRetryAndWrapped

\* C22 witness: the one inference of a call raised, and the call is over
\* with an AudioProcessingError wrapping that error
C22_Witness ==
    /\ LocalCallOver
    /\ ncalls = 1
    /\ errs = <<ErrRateLimit>>
    /\ toutcome = "AudioProcessingError"
    /\ tcause = ErrRateLimit

\* the names loaded so far are all different
LoadedOnce == \A i, j \in 1..Len(loads) : loads[i] = loads[j] => i = j

\* the cache holds, for each name loaded, the weights of its one load
CacheHoldsFirstLoad ==
    /\ DOMAIN model_cache = {loads[i] : i \in 1..Len(loads)}
    /\ \A i \in 1..Len(loads) : model_cache[loads[i]] = i

\* C23: over any sequence of WhisperTranscriber.transcribe calls on one
\* transcriber, the weights of a model name are loaded at most once, on first
\* use, and reused afterwards (inference runs with the cached weights); the
\* cache only grows: no entry is ever replaced or removed.
C23_LoadedOnceAndKept ==
    /\ [](LoadedOnce /\ CacheHoldsFirstLoad)
    /\ [](tpc = "whisper" => model_name \in DOMAIN model_cache)
    /\ [][/\ DOMAIN model_cache \subseteq DOMAIN model_cache'
          /\ \A k \in DOMAIN model_cache : model_cache'[k] = model_cache[k]]_vars

\* C23 witness: the third call is about to run inference with the weights
\* the first call loaded, another model having been loaded in between
C23_Witness ==
    /\ ntranscribes = 3
    /\ tpc = "whisper"
    /\ model_name = "whisper-base"
    /\ loads = <<"whisper-base", "whisper-small">>
    /\ model_cache["whisper-base"] = 1

(***************************************************************************)
(* The retry loop of APITranscriber.transcribe                             *)
(***************************************************************************)

\* the failure of attempt n (1-based) mentions "rate limit" and not "per day"
RateLimitFailure(n) == MentionsRateLimit(errs[n]) /\ ~MentionsPerDay(errs[n])

\* the failure of attempt n mentions neither
PlainFailure(n) == ~MentionsRateLimit(errs[n]) /\ ~MentionsPerDay(errs[n])

\* the backoff sleeps the failures of attempts 1..n call for: 2 * k seconds
\* after a rate-limit failure on attempt k, nothing after any other
RECURSIVE StatedSleeps(_)
StatedSleeps(n) ==
    IF n = 0 THEN <<>>
    ELSE IF RateLimitFailure(n) THEN Append(StatedSleeps(n - 1), 2 * n)
    ELSE StatedSleeps(n - 1)

\* attempt n + 1 has followed the failure of attempt n, or is under way
NextAttemptFollows(n) ==
    \/ ncalls > n
    \/ tpc \in {"wait", "call"} /\ attempt = n

\* C24 as stated: a failure mentioning "rate limit" and not "per day" on
\* attempt n is followed by a backoff sleep of 2 * n seconds and then, if
\* n < max_retries, by attempt n + 1; a failure of any other kind is followed
\* by the next attempt with no backoff sleep.
C24_BackoffAsStated ==
    /\ sleeps = StatedSleeps(Len(errs))
    /\ \A n \in 1..Len(errs) :
          IF RateLimitFailure(n)
          THEN n < max_retries => NextAttemptFollows(n)
          ELSE NextAttemptFollows(n)

\* C24 amended: a failure mentioning "rate limit" and not "per day" on
\* attempt n is followed by a backoff sleep of 2 * n seconds and then, if
\* n < max_retries, by attempt n + 1; a failure mentioning neither is
\* followed by no backoff sleep and, if n < max_retries, by attempt n + 1
\* (on the last attempt, and for a failure mentioning "per day" on any
\* attempt, transcribe raises and no attempt follows).
C24_Backoff ==
    /\ sleeps = StatedSleeps(Len(errs))
    /\ \A n \in 1..Len(errs) :
          /\ (RateLimitFailure(n) /\ n < max_retries) => NextAttemptFollows(n)
          /\ (PlainFailure(n) /\ n < max_retries) => NextAttemptFollows(n)
          /\ (PlainFailure(n) /\ n = max_retries) => ~NextAttemptFollows(n)
          /\ MentionsPerDay(errs[n]) => ~NextAttemptFollows(n)

\* C24 witness: attempts 1 and 3 failed on the rate limit and attempt 2 on
\* something else; the sleeps were of 2 and 6 seconds and attempt 4 is next
C24_Witness ==
    /\ errs = <<ErrRateLimit, ErrOther, ErrRateLimit>>
    /\ sleeps = <<2, 6>>
    /\ tpc = "wait"
    /\ attempt = 3

\* a call of APITranscriber.transcribe is under way
InTranscribe == tpc \in {"wait", "call"}

\* C25: for every sequence of engine outcomes, APITranscriber.transcribe
\* terminates (returns or raises) after at most max_retries engine calls,
\* each engine call is preceded by exactly one RateLimiter.wait(), and the
\* first successful response ends the loop with no further engine call.
C25_BoundedRetries ==
    /\ [](/\ ncalls <= max_retries
          /\ nwaits = ncalls + (IF tpc = "call" THEN 1 ELSE 0)
          /\ ncalls \in {Len(errs), Len(errs) + 1}
          /\ ncalls = Len(errs) + 1 => (tpc = "done" /\ toutcome = "returned"))
    /\ InTranscribe ~> tpc = "done"

\* C25 witness: four failed attempts and a fifth that succeeded, after five
\* waits and five engine calls
C25_Witness ==
    /\ tpc = "done"
    /\ toutcome = "returned"
    /\ Len(errs) = max_retries - 1
    /\ ncalls = max_retries
    /\ nwaits = max_retries
    /\ tret # <<>>

(***************************************************************************)
(* Spans of merged intervals and of chunks                                 *)
(***************************************************************************)

\* the pass of merge over the start-ordered list T, keeping with the
\* accumulator the smallest start and the largest end of the intervals merged
\* into it; out holds these spans for the accumulators that were returned
SpanState(T) ==
    LET f[k \in 1..Len(T)] ==
            IF k = 1
            THEN [cur |-> T[1], lo |-> T[1].start, hi |-> T[1].end, out |-> <<>>]
            ELSE LET p == f[k - 1]
                     nxt == T[k]
                     flushed == IF p.cur.end - p.cur.start >= min_duration
                                THEN Append(p.out, [lo |-> p.lo, hi |-> p.hi])
                                ELSE p.out
                 IN  IF WithinMergeReach(p.cur, nxt)
                     THEN [cur |-> [speaker |-> p.cur.speaker,
                                    start |-> p.cur.start, end |-> nxt.end],
                           lo |-> Min(p.lo, nxt.start),
                           hi |-> Max(p.hi, nxt.end),
                           out |-> p.out]
                     ELSE [cur |-> nxt, lo |-> nxt.start, hi |-> nxt.end,
                           out |-> flushed]
    IN  f[Len(T)]

\* the spans of the constituents of the intervals merge returns for S
ConstituentSpans(S) ==
    IF Len(S) = 0 THEN <<>>
    ELSE LET p == SpanState(InStartOrder(S))
         IN  IF p.cur.end - p.cur.start >= min_duration
             THEN Append(p.out, [lo |-> p.lo, hi |-> p.hi]) ELSE p.out

\* C26: every interval merge returns spans all the input intervals that were
\* merged into it: its start is the smallest start and its end the largest
\* end among its constituents, a same-speaker interval nested inside the
\* accumulator included.
C26_MergedSpansConstituents ==
    sphase = "merged" =>
        LET spans == ConstituentSpans(segs)
        IN  /\ Len(spans) = Len(merged)
            /\ \A k \in 1..Len(merged) :
                  /\ merged[k].start = spans[k].lo
                  /\ merged[k].end = spans[k].hi

\* the list is in start order
StartSorted(S) == \A i \in 1..(Len(S) - 1) : S[i].start <= S[i + 1].start

\* C27: for every chunk build returns on a start-sorted interval sequence,
\* the span [chunk.start, chunk.end] contains each of its subsegments:
\* chunk.start <= s.start and s.end <= chunk.end.
C27_ChunkSpansSubsegments ==
    (sphase = "built" /\ StartSorted(chunkInput)) =>
        \A i \in 1..Len(chunks) :
            \A j \in 1..Len(chunks[i].subsegments) :
                /\ chunks[i].start <= chunks[i].subsegments[j].start
                /\ chunks[i].subsegments[j].end <= chunks[i].end

(***************************************************************************)
(* merge_consecutive_speakers applied twice                                *)
(***************************************************************************)

\* C28: merge_consecutive_speakers is idempotent and does not modify its
\* input: merge(merge(R)) equals merge(R), the records of R are unchanged
\* after the call, and in the output no two adjacent records share a speaker
\* unless the earlier one's trimmed text ends in one of . ! ? or the
\* ellipsis.
C28_MergeRecordsIdempotent ==
    /\ xphase \in {"records", "records_again"} =>
          /\ recAfter = recIn
          /\ \A i \in 1..(Len(recOut) - 1) :
                recOut[i].speaker = recOut[i + 1].speaker =>
                    EndsInTerminal(recOut[i].text)
    /\ xphase = "records_again" => recOut = recIn

\* C28 witness: a list of three records was merged into two, of the same
\* speaker, and merging these two again has returned them as they were
C28_Witness ==
    /\ xphase = "records_again"
    /\ Len(recOut) = 2
    /\ recOut[1].speaker = recOut[2].speaker
    /\ \E i \in 1..Len(recOut) : \E k \in 1..Len(recOut[i].text) :
          recOut[i].text[k] = " "
    /\ recOut = recIn
    /\ recAfter = recIn

(***************************************************************************)
(* Records and subsegments of split_by_speakers                            *)
(***************************************************************************)

\* the cursor once the first k subsegments have taken their words
RECURSIVE CursorAfter(_, _, _)
CursorAfter(segments, k, total_words) ==
    IF k = 0 THEN 0
    ELSE CursorAfter(segments, k - 1, total_words)
         + WordCount(segments[k], TotalDuration(segments), total_words)

\* C29: when split_by_speakers returns records, they correspond one to one
\* and in order to the first k subsegments for some 1 <= k <= number of
\* subsegments (record j carries subsegment j's speaker), every record has at
\* least one word, and the subsegments after the k-th, reached once the
\* cursor is at or past the end of the word list, get no record.
C29_RecordsFollowSubsegments ==
    (xphase = "split" /\ records # <<>>) =>
        LET k == Len(records)
            N == Len(Split(textIn))
        IN  /\ k <= Len(segs)
            /\ \A j \in 1..k :
                  /\ records[j].speaker = segs[j].speaker
                  /\ Split(records[j].text) # <<>>
            /\ CursorAfter(segs, k - 1, N) < N
            /\ k < Len(segs) => CursorAfter(segs, k, N) >= N

\* C29 witness: three subsegments and two words: the first two subsegments
\* have a record of one word each and the third, of another speaker than
\* the second, has none
C29_Witness ==
    /\ xphase = "split"
    /\ Len(segs) = 3
    /\ segs[3].speaker # segs[2].speaker
    /\ Len(Split(textIn)) = 2
    /\ Len(records) = 2
    /\ records[2].speaker = segs[2].speaker

(***************************************************************************)
(* The processing flag of the session                                      *)
(***************************************************************************)

\* a pipeline run is in progress: the start button was clicked and main()
\* has not yet come to the end of its pipeline block
RunInProgress ==
    ppc \in {"diarize", "parse", "segments", "chunk", "transcribing", "save"}

\* C30: session_state.processing is True only while a pipeline run is in
\* progress: after a run ends, whether it completes or is aborted by a
\* diarization error, by the quota error and st.stop(), or by a processing
\* error, processing is False again.
C30_ProcessingOnlyWhileRunning ==
    session.processing => RunInProgress

=============================================================================
